---- MODULE Spec2Model ----
(***************************************************************************)
(* Transperth journey planner: the poll orchestrator (coordinator.py), the *)
(* transport client and the structured response parser (api.py).           *)
(*                                                                         *)
(* Text that the code manipulates character by character (strip, strftime, *)
(* lower, replace) is a sequence of one-character strings.  Python's None  *)
(* in a text position is the one-element sequence None, which no text can  *)
(* equal.  Enumerated tokens that are only compared ("bus", "success")     *)
(* are TLA+ strings.                                                       *)
(***************************************************************************)
EXTENDS Integers, Sequences, FiniteSets, TLC

VARIABLES
    now,          \* the wall clock read by datetime.now()
    routes,       \* coordinator.routes: route name -> RouteConfig
    api,          \* TransperthAPI: _request_verification_token, _module_id, _tab_id
    pc,           \* "idle", "running" (inside async_update_data) or "raised"
    idx,          \* position of the for loop of async_update_data in the registry
    routes_data,  \* the cycle-local dict of async_update_data
    data,         \* coordinator.data, the published snapshot (NoData before the first cycle)
    seen,         \* the value of coordinator.data a sensor read in the last step (NotRead otherwise)
    returned,     \* history: the value the last completed async_update_data returned
    outcome,      \* history: route name -> "ok" / "raised" for the routes attempted in this cycle
    last_call,    \* history: the latest get_journey_options call of the cycle
    date_log,     \* history: <<route, clock date, date argument>> of the calls for routes dated "today"
    fin,          \* input of the function under check (function specifications)
    fout,         \* its output
    entries,      \* the config entries: entry id -> the stored scan-interval option
    hass,         \* hass.data[DOMAIN], the loaded coordinators and the service registry
    call,         \* history: the latest call of the refresh service
    flow          \* the setup flow: _routes, _parsed_url_data, the form shown, its errors

vars == <<now, routes, api, pc, idx, routes_data, data, seen, returned,
          outcome, last_call, date_log, fin, fout, entries, hass, call, flow>>

pollVars == <<now, routes, api, pc, idx, routes_data, data, seen, returned,
              outcome, last_call, date_log>>

setupVars == <<entries, hass, call, flow>>

-----------------------------------------------------------------------------
(* Text *)

None == <<"None">>

Whitespace == {" ", "\t", "\n"}

RECURSIVE LStrip(_)
LStrip(s) ==
    IF s = <<>> THEN <<>>
    ELSE IF Head(s) \in Whitespace THEN LStrip(Tail(s)) ELSE s

RECURSIVE RStrip(_)
RStrip(s) ==
    IF s = <<>> THEN <<>>
    ELSE IF s[Len(s)] \in Whitespace THEN RStrip(SubSeq(s, 1, Len(s) - 1)) ELSE s

Strip(s) == RStrip(LStrip(s))

\* Python truthiness of a str | None value
Truthy(s) == s # None /\ s # <<>>

DigitChars == <<"0", "1", "2", "3", "4", "5", "6", "7", "8", "9">>

Digit(n) == DigitChars[n + 1]

Digits2(n) == <<Digit((n \div 10) % 10), Digit(n % 10)>>

Digits4(n) == <<Digit((n \div 1000) % 10), Digit((n \div 100) % 10)>> \o Digits2(n)

\* strftime("%Y-%m-%d") and strftime("%H:%M")
FormatDate(t) == Digits4(t.year) \o <<"-">> \o Digits2(t.month) \o <<"-">> \o Digits2(t.day)

FormatTime(t) == Digits2(t.hour) \o <<":">> \o Digits2(t.minute)

S_today == <<"t", "o", "d", "a", "y">>

S_walk == <<"w", "a", "l", "k">>

S_bus == <<"b", "u", "s">>

S_train == <<"t", "r", "a", "i", "n">>

S_ferry == <<"f", "e", "r", "r", "y">>

S_cat == <<"c", "a", "t">>

S_Catch_ == <<"C", "a", "t", "c", "h", " ">>

S_WalkTo_ == <<"W", "a", "l", "k", " ", "t", "o", " ">>

S_Walk_ == <<"W", "a", "l", "k", " ">>

S_5325 == <<"5", "3", "2", "5">>

S_140 == <<"1", "4", "0">>

S_psma == <<"p", "s", "m", "a", "_", "a", "d", "d", "r", "e", "s", "s", "e", "s">>

S_2000 == <<"2", "0", "0", "0">>

S_m1 == <<"-", "1">>

UpperChars == <<"A", "B", "C", "D", "E", "F", "G", "H", "I", "J", "K", "L", "M",
                "N", "O", "P", "Q", "R", "S", "T", "U", "V", "W", "X", "Y", "Z">>

LowerChars == <<"a", "b", "c", "d", "e", "f", "g", "h", "i", "j", "k", "l", "m",
                "n", "o", "p", "q", "r", "s", "t", "u", "v", "w", "x", "y", "z">>

LowerChar(c) ==
    IF \E i \in 1..26 : UpperChars[i] = c
    THEN LowerChars[CHOOSE i \in 1..26 : UpperChars[i] = c]
    ELSE c

\* str.lower()
Lower(s) == [i \in 1..Len(s) |-> LowerChar(s[i])]

\* sub in s
Contains(sub, s) ==
    \E i \in 1..(Len(s) - Len(sub) + 1) : SubSeq(s, i, i + Len(sub) - 1) = sub

\* str.replace(old, new): every non-overlapping occurrence, left to right
RECURSIVE Replace(_, _, _)
Replace(s, old, new) ==
    IF Len(s) < Len(old) THEN s
    ELSE IF SubSeq(s, 1, Len(old)) = old
         THEN new \o Replace(SubSeq(s, Len(old) + 1, Len(s)), old, new)
         ELSE <<Head(s)>> \o Replace(Tail(s), old, new)

\* " ".join(parts)
RECURSIVE JoinSpace(_)
JoinSpace(parts) ==
    IF parts = <<>> THEN <<>>
    ELSE IF Len(parts) = 1 THEN parts[1]
    ELSE parts[1] \o <<" ">> \o JoinSpace(Tail(parts))

\* an empty dict, and a dict with one key set
EmptyMap == [x \in {} |-> 0]

Put(m, k, v) == [x \in (DOMAIN m) \cup {k} |-> IF x = k THEN v ELSE m[x]]

-----------------------------------------------------------------------------
(* api.py: the structured parser.                                          *)
(* A JSON object is a record with the set of its keys; d.get(k, default)   *)
(* is Get.  A value that is not an object has isdict = FALSE.  A JSON list *)
(* is [iterable |-> TRUE, items |-> ...]; null in its place is not         *)
(* iterable.                                                               *)

Get(d, k, default) == IF k \in d.keys THEN d[k] ELSE default

JourneyLeg(type, description, service_code) ==
    [type |-> type, description |-> description, service_code |-> service_code]

JourneyOption(leave_time, arrive_time, travel_time, legs, index) ==
    [leave_time |-> leave_time, arrive_time |-> arrive_time,
     travel_time |-> travel_time, legs |-> legs, index |-> index]

JourneyData(options, from_location, to_location, date, time) ==
    [options |-> options, from_location |-> from_location,
     to_location |-> to_location, date |-> date, time |-> time]

NoLeg == JourneyLeg("walk", <<>>, None)

NoOption == JourneyOption(<<>>, <<>>, <<>>, <<>>, 0)

\* lines 320-331: the leg type from the lowered vehicle kind and the title
LegType(trip_vehicle, display_title) ==
    IF trip_vehicle = S_walk \/ Contains(S_walk, Lower(display_title)) THEN "walk"
    ELSE IF trip_vehicle = S_bus \/ Contains(S_bus, Lower(display_title)) THEN "bus"
    ELSE IF trip_vehicle = S_train \/ Contains(S_train, Lower(display_title)) THEN "train"
    ELSE IF trip_vehicle = S_ferry \/ Contains(S_ferry, Lower(display_title)) THEN "ferry"
    ELSE IF Contains(S_cat, Lower(display_title)) THEN "cat"
    ELSE "walk"

\* lines 334-344: the leg description
Description(trip_vehicle, route_code, display_title, display_duration) ==
    LET codePart == IF Truthy(route_code) THEN <<route_code>> ELSE <<>>
        title == Replace(Replace(Replace(display_title, S_Catch_, <<>>),
                                 S_WalkTo_, <<>>), S_Walk_, <<>>)
        titlePart == IF Truthy(display_title) THEN <<title>> ELSE <<>>
        durPart == IF Truthy(display_duration)
                   THEN <<(<<"(">> \o display_duration \o <<")">>)>> ELSE <<>>
        description_parts == codePart \o titlePart \o durPart
    IN  IF description_parts # <<>> THEN JoinSpace(description_parts)
        ELSE IF Truthy(display_title) THEN display_title
        ELSE trip_vehicle

\* lines 314-352: one pass of the leg loop; raised when a statement of the
\* pass raises (a leg that is not an object, None.lower())
ParseTrip(trip) ==
    IF ~trip.isdict THEN [raised |-> TRUE, leg |-> NoLeg]
    ELSE
    LET raw_vehicle == Get(trip, "TripVehicle", <<>>)
        route_code == Get(trip, "RouteCode", None)
        display_title == Get(trip, "DisplayTripTitle", <<>>)
        display_duration == Get(trip, "DisplayTripDuration", <<>>)
    IN  IF raw_vehicle = None THEN [raised |-> TRUE, leg |-> NoLeg]
        ELSE IF Lower(raw_vehicle) # S_walk /\ display_title = None
             THEN [raised |-> TRUE, leg |-> NoLeg]
        ELSE LET trip_vehicle == Lower(raw_vehicle)
                 titleText == IF display_title = None THEN <<>> ELSE display_title
             IN  [raised |-> FALSE,
                  leg |-> JourneyLeg(
                      LegType(trip_vehicle, titleText),
                      Description(trip_vehicle, route_code, display_title,
                                  IF display_duration = None THEN <<>> ELSE display_duration),
                      route_code)]

\* lines 313-352: the leg loop has no handler of its own, so the first pass
\* that raises ends the loop and the exception leaves it
RECURSIVE ParseLegs(_, _, _)
ParseLegs(items, i, legs) ==
    IF i > Len(items) THEN [raised |-> FALSE, legs |-> legs]
    ELSE LET r == ParseTrip(items[i])
         IN  IF r.raised THEN [raised |-> TRUE, legs |-> legs]
             ELSE ParseLegs(items, i + 1, Append(legs, r.leg))

\* lines 302-362: the body of the try block for one journey entry
ParseJourney(journey) ==
    IF ~journey.isdict THEN [raised |-> TRUE, option |-> NoOption]
    ELSE
    LET leave_time == Get(journey, "JnyDisplayDepartTime", <<>>)
        arrive_time == Get(journey, "JnyDisplayArriveTime", <<>>)
        travel_time == Get(journey, "JnyDuration", <<>>)
        journey_number == Get(journey, "JnyNumber", 0)
        trip_details == Get(journey, "JnyTripDetails", [iterable |-> TRUE, items |-> <<>>])
    IN  IF ~trip_details.iterable THEN [raised |-> TRUE, option |-> NoOption]
        ELSE LET r == ParseLegs(trip_details.items, 1, <<>>)
             IN  IF r.raised THEN [raised |-> TRUE, option |-> NoOption]
                 ELSE [raised |-> FALSE,
                       option |-> JourneyOption(leave_time, arrive_time, travel_time,
                                                r.legs, journey_number)]

\* a break in place of the continue of line 366
AfterJourneyErrorBreak(i, n) == n + 1

\* lines 364-366: except Exception ... continue
AfterJourneyError(i, n) == i + 1

\* lines 301-366: the journey loop; src is the position of the entry an
\* option was built from (history, not part of the option)
RECURSIVE ParseLoop(_, _, _)
ParseLoop(items, i, acc) ==
    IF i > Len(items) THEN acc
    ELSE LET r == ParseJourney(items[i])
         IN  IF r.raised THEN ParseLoop(items, AfterJourneyError(i, Len(items)), acc)
             ELSE ParseLoop(items, i + 1, Append(acc, [src |-> i, option |-> r.option]))

\* _parse_json_journey_options: raises when journeys is not iterable (line 301)
ParseJsonTraced(journeys) ==
    IF ~journeys.iterable THEN [raised |-> TRUE, traced |-> <<>>]
    ELSE [raised |-> FALSE, traced |-> ParseLoop(journeys.items, 1, <<>>)]

\* the options without the history
Untraced(traced) == [k \in 1..Len(traced) |-> traced[k].option]

ParseJsonJourneyOptions(journeys) ==
    LET r == ParseJsonTraced(journeys)
    IN  [raised |-> r.raised, options |-> Untraced(r.traced)]

-----------------------------------------------------------------------------
(* api.py: the transport client *)

\* x in (lst or [])
InList(x, lst) == lst # None /\ \E i \in 1..Len(lst) : lst[i] = x

RECURSIVE NatToStr(_)
NatToStr(n) == IF n < 10 THEN <<Digit(n)>> ELSE NatToStr(n \div 10) \o <<Digit(n % 10)>>

\* str(n) of an int
IntToStr(n) == IF n < 0 THEN <<"-">> \o NatToStr(0 - n) ELSE NatToStr(n)

\* the client as __init__ leaves it (lines 73-75)
NewApi == [token |-> None, module_id |-> None, tab_id |-> None]

\* lines 99-111: the script loop; every script with a match overwrites the field
RECURSIVE ScanScripts(_, _, _)
ScanScripts(scripts, i, a) ==
    IF i > Len(scripts) THEN a
    ELSE LET sc == scripts[i]
             m == IF sc.has_string /\ sc.module_id # None THEN sc.module_id ELSE a.module_id
             t == IF sc.has_string /\ sc.tab_id # None THEN sc.tab_id ELSE a.tab_id
         IN  ScanScripts(scripts, i + 1, [a EXCEPT !.module_id = m, !.tab_id = t])

\* only the server errors rejected
RaiseForStatusServerOnly(status) == 500 =< status /\ status < 600

\* response.raise_for_status(): raises for the statuses 400..599
RaiseForStatus(status) == 400 =< status /\ status < 600

\* an except branch that keeps what the client holds and only fills in the
\* missing identifiers
GetSessionTokensKeepOnFailure(a, prime) ==
    IF prime.kind = "timeout" \/ RaiseForStatus(prime.status)
    THEN [a EXCEPT !.module_id = IF Truthy(a.module_id) THEN a.module_id ELSE S_5325,
                   !.tab_id = IF Truthy(a.tab_id) THEN a.tab_id ELSE S_140]
    ELSE LET a1 == IF prime.page.token_input.present
                   THEN [a EXCEPT !.token = prime.page.token_input.value]
                   ELSE a
             a2 == ScanScripts(prime.page.scripts, 1, a1)
         IN  [a2 EXCEPT !.module_id = IF Truthy(a2.module_id) THEN a2.module_id ELSE S_5325,
                        !.tab_id = IF Truthy(a2.tab_id) THEN a2.tab_id ELSE S_140]

\* _get_session_tokens (lines 77-124)
GetSessionTokens(a, prime) ==
    IF prime.kind = "timeout" \/ RaiseForStatus(prime.status)
    THEN [token |-> None, module_id |-> S_5325, tab_id |-> S_140]
    ELSE LET a1 == IF prime.page.token_input.present
                   THEN [a EXCEPT !.token = prime.page.token_input.value]
                   ELSE a
             a2 == ScanScripts(prime.page.scripts, 1, a1)
         IN  [a2 EXCEPT !.module_id = IF Truthy(a2.module_id) THEN a2.module_id ELSE S_5325,
                        !.tab_id = IF Truthy(a2.tab_id) THEN a2.tab_id ELSE S_140]

\* a required parameter that is only checked for emptiness, not stripped first
IsBlankNoStrip(s) == ~Truthy(s)

\* lines 167-174: not x or not x.strip()
IsBlank(s) == ~Truthy(s) \/ Strip(s) = <<>>

\* lines 166-174
ValidationFails(args) ==
    \/ IsBlank(args.from_location)
    \/ IsBlank(args.to_location)
    \/ IsBlank(args.from_position)
    \/ IsBlank(args.to_position)

\* the default of lines 204-206 switching on the bus only
TransportFlagsBusOnly(transport_options) ==
    LET bus == InList("bus", transport_options)
        train == InList("train", transport_options)
        ferry == InList("ferry", transport_options)
        school == InList("school_bus", transport_options)
        none == ~(bus \/ train \/ ferry \/ school)
    IN  [TransportBus |-> bus \/ none, TransportTrain |-> train,
         TransportFerry |-> ferry, TransportSchoolBus |-> school]

\* lines 197-206: the four Transport* flags of the payload
TransportFlags(transport_options) ==
    LET bus == InList("bus", transport_options)
        train == InList("train", transport_options)
        ferry == InList("ferry", transport_options)
        school == InList("school_bus", transport_options)
        none == ~(bus \/ train \/ ferry \/ school)
    IN  [TransportBus |-> bus \/ none, TransportTrain |-> train \/ none,
         TransportFerry |-> ferry, TransportSchoolBus |-> school]

\* lines 209-210
WalkSpeedToken(walk_speed) ==
    CASE walk_speed = "slow" -> "SLOW"
      [] walk_speed = "normal" -> "NORMAL"
      [] walk_speed = "fast" -> "FAST"
      [] OTHER -> "NORMAL"

\* lines 179-229: the JSON payload; an optional key that is left out is None
BuildPayload(args) ==
    LET flags == TransportFlags(args.transport_options)
    IN  [FromLocationName |-> Strip(args.from_location),
         FromLocationType |-> IF Truthy(args.from_type) THEN Strip(args.from_type) ELSE S_psma,
         FromLocationPosition |-> Strip(args.from_position),
         ToLocationName |-> Strip(args.to_location),
         ToLocationType |-> IF Truthy(args.to_type) THEN Strip(args.to_type) ELSE S_psma,
         ToLocationPosition |-> Strip(args.to_position),
         JourneyDate |-> IF Truthy(args.date) THEN Strip(args.date) ELSE <<>>,
         JourneyTime |-> IF Truthy(args.time) THEN Strip(args.time) ELSE <<>>,
         FromLocationLocality |->
             IF Truthy(args.from_locality) /\ Strip(args.from_locality) # <<>>
             THEN Strip(args.from_locality) ELSE None,
         ToLocationLocality |->
             IF Truthy(args.to_locality) /\ Strip(args.to_locality) # <<>>
             THEN Strip(args.to_locality) ELSE None,
         TransportBus |-> flags.TransportBus,
         TransportTrain |-> flags.TransportTrain,
         TransportFerry |-> flags.TransportFerry,
         TransportSchoolBus |-> flags.TransportSchoolBus,
         WalkSpeed |-> WalkSpeedToken(args.walk_speed),
         MaxConnections |-> IF args.max_connections # <<>>
                            THEN IntToStr(args.max_connections[1]) ELSE S_m1,
         MaxWalkingDistance |->
             IF Truthy(args.max_walking_distance)
             THEN Strip(Replace(Replace(args.max_walking_distance, <<"m">>, <<>>),
                                <<"M">>, <<>>))
             ELSE S_2000,
         ReturnNotes |-> TRUE,
         MaxJourneys |-> <<"5">>]

NoPayload == <<>>

NoHeaders == <<>>

\* lines 233-246: the headers of the POST; a header that is left out is None
BuildHeaders(a) ==
    [RequestVerificationToken |-> IF Truthy(a.token) THEN a.token ELSE None,
     ModuleId |-> IF Truthy(a.module_id) THEN a.module_id ELSE None,
     TabId |-> IF Truthy(a.tab_id) THEN a.tab_id ELSE None]

GetRequest == [method |-> "GET", payload |-> NoPayload, headers |-> NoHeaders]

PostRequest(payload, headers) == [method |-> "POST", payload |-> payload, headers |-> headers]

NoJourneyData == JourneyData(<<>>, None, None, None, None)

\* lines 257-264: what the response of the POST raises before the journey
\* list is parsed ("none" when nothing)
PostError(post) ==
    IF post.kind = "timeout" THEN "RequestException"
    ELSE IF RaiseForStatus(post.status) THEN "HTTPError"
    ELSE IF post.body.json = "invalid" THEN "JSONDecodeError"
    ELSE IF post.body.json # "object" THEN "AttributeError"
    ELSE IF Get(post.body, "result", "None") # "success" THEN "ValueError"
    ELSE "none"

\* get_journey_options (lines 126-288): raised is the exception that leaves
\* the call ("none" when it returns), net the requests it issued, in order
GetJourneyOptions(a, args, prime, post) ==
    IF ValidationFails(args)
    THEN [raised |-> "ValueError", value |-> NoJourneyData, api |-> a, net |-> <<>>]
    ELSE
    LET a1 == GetSessionTokens(a, prime)
        net == <<GetRequest, PostRequest(BuildPayload(args), BuildHeaders(a1))>>
        err == PostError(post)
    IN  IF err # "none"
        THEN [raised |-> err, value |-> NoJourneyData, api |-> a1, net |-> net]
        ELSE LET r == ParseJsonJourneyOptions(
                          Get(post.body, "data", [iterable |-> TRUE, items |-> <<>>]))
             IN  IF r.raised
                 THEN [raised |-> "TypeError", value |-> NoJourneyData,
                       api |-> a1, net |-> net]
                 ELSE [raised |-> "none",
                       value |-> JourneyData(r.options, args.from_location,
                                             args.to_location, args.date, args.time),
                       api |-> a1, net |-> net]

-----------------------------------------------------------------------------
(* Inputs: clock values, route configurations, upstream responses *)

S_Perth == <<"P", "e", "r", "t", "h">>

S_Freo == <<"F", "r", "e", "o">>

S_pos == <<"-", "3", "1", ".", "9", ",", "1", "1", "5", ".", "8">>

S_pos2 == <<"-", "3", "2", ".", "0", ",", "1", "1", "5", ".", "7">>

S_date_lit == <<"2", "0", "2", "6", "-", "1", "2", "-", "2", "5">>

S_time_lit == <<"0", "7", ":", "3", "0">>

S_T1 == <<"t", "o", "k", "1">>

S_77 == <<"7", "7">>

S_9 == <<"9">>

S_0805 == <<"8", ":", "0", "5", "a", "m">>

S_0910 == <<"9", ":", "1", "0", "a", "m">>

S_65mins == <<"6", "5", " ", "m", "i", "n", "s">>

S_Bus == <<"B", "u", "s">>

S_Walk == <<"W", "a", "l", "k">>

S_CatchBus276 == <<"C", "a", "t", "c", "h", " ", "B", "u", "s", " ", "2", "7", "6">>

S_WalkToStop == <<"W", "a", "l", "k", " ", "t", "o", " ", "S", "t", "o", "p">>

S_276 == <<"2", "7", "6">>

S_12mins == <<"1", "2", " ", "m", "i", "n", "s">>

\* the number of steps the clock takes
MaxClockSteps == 2

ClockStart == [year |-> 2026, month |-> 12, day |-> 31, hour |-> 9, minute |-> 5]

DaysIn(month) == IF month = 2 THEN 28 ELSE IF month \in {4, 6, 9, 11} THEN 30 ELSE 31

NextDay(t) ==
    IF t.day < DaysIn(t.month) THEN [t EXCEPT !.day = t.day + 1]
    ELSE IF t.month < 12 THEN [t EXCEPT !.day = 1, !.month = t.month + 1]
    ELSE [t EXCEPT !.day = 1, !.month = 1, !.year = t.year + 1]

\* the clock thirteen hours later
Advance(t) ==
    IF t.hour + 13 < 24 THEN [t EXCEPT !.hour = t.hour + 13]
    ELSE NextDay([t EXCEPT !.hour = t.hour - 11])

RECURSIVE ClockAt(_)
ClockAt(k) == IF k = 0 THEN ClockStart ELSE Advance(ClockAt(k - 1))

JsonList(items) == [iterable |-> TRUE, items |-> items]

JsonNull == [iterable |-> FALSE, items |-> <<>>]

Trip(keys, vehicle, code, title, duration) ==
    [isdict |-> TRUE, keys |-> keys, TripVehicle |-> vehicle, RouteCode |-> code,
     DisplayTripTitle |-> title, DisplayTripDuration |-> duration]

TripAllKeys == {"TripVehicle", "RouteCode", "DisplayTripTitle", "DisplayTripDuration"}

TripBus == Trip(TripAllKeys, S_Bus, S_276, S_CatchBus276, S_12mins)

TripWalk == Trip({"TripVehicle", "DisplayTripTitle"}, S_Walk, None, S_WalkToStop, <<>>)

\* "TripVehicle": null
TripNullVehicle == Trip(TripAllKeys, None, S_276, S_CatchBus276, S_12mins)

\* a leg entry that is a JSON string, not an object
TripNotObject == [isdict |-> FALSE, keys |-> {}, TripVehicle |-> <<>>, RouteCode |-> None,
                  DisplayTripTitle |-> <<>>, DisplayTripDuration |-> <<>>]

Journey(keys, depart, arrive, duration, number, trips) ==
    [isdict |-> TRUE, keys |-> keys, JnyDisplayDepartTime |-> depart,
     JnyDisplayArriveTime |-> arrive, JnyDuration |-> duration, JnyNumber |-> number,
     JnyTripDetails |-> trips]

JourneyAllKeys == {"JnyDisplayDepartTime", "JnyDisplayArriveTime", "JnyDuration",
                   "JnyNumber", "JnyTripDetails"}

JourneyWithLegs(number, trips) ==
    Journey(JourneyAllKeys, S_0805, S_0910, S_65mins, number, trips)

\* a journey entry that is a JSON string, not an object
JourneyNotObject == [isdict |-> FALSE, keys |-> {}, JnyDisplayDepartTime |-> <<>>,
                     JnyDisplayArriveTime |-> <<>>, JnyDuration |-> <<>>, JnyNumber |-> 0,
                     JnyTripDetails |-> JsonList(<<>>)]

\* the positional arguments of get_journey_options, as the coordinator passes them
Args(from_location, from_position, to_location, to_position, date, time, departure_option, transport_options) ==
    [from_location |-> from_location, from_type |-> S_psma,
     from_position |-> from_position, from_locality |-> <<>>,
     to_location |-> to_location, to_type |-> S_psma,
     to_position |-> to_position, to_locality |-> <<>>,
     date |-> date, time |-> time, departure_option |-> departure_option,
     transport_options |-> transport_options, walk_speed |-> "normal",
     max_connections |-> <<>>, max_walking_distance |-> None]

\* RouteConfig (coordinator.py lines 36-55) has the fields of Args
RouteLiteral == Args(S_Perth, S_pos, S_Freo, S_pos2, S_date_lit, S_time_lit,
                     "leave_after", <<"bus", "train">>)

RouteToday == [RouteLiteral EXCEPT !.date = S_today, !.time = <<>>]

RouteBlankPosition == [RouteLiteral EXCEPT !.from_position = <<" ">>]

\* no date stored (line 92: route_data.get(CONF_DATE, ""))
RouteBlankDate == [RouteLiteral EXCEPT !.date = <<>>]

Registry(a, b, c) == [r \in {"A", "B", "C"} |-> CASE r = "A" -> a [] r = "B" -> b [] r = "C" -> c]

\* config_entry.data["routes"] as the coordinator reads it (lines 79-99)
RegistryChoices ==
    {Registry(RouteLiteral, RouteLiteral, RouteLiteral),
     Registry(RouteToday, RouteBlankDate, RouteBlankPosition),
     Registry(RouteBlankPosition, RouteToday, RouteToday),
     Registry(RouteBlankPosition, RouteBlankPosition, RouteBlankPosition)}

RouteOrder == <<"A", "B", "C">>

RouteNames == {RouteOrder[i] : i \in 1..Len(RouteOrder)}

NoPage == [token_input |-> [present |-> FALSE, value |-> None], scripts |-> <<>>]

PrimeTimeout == [kind |-> "timeout", status |-> 0, page |-> NoPage]

PrimeResponse(status, page) == [kind |-> "response", status |-> status, page |-> page]

PageWithTokens ==
    [token_input |-> [present |-> TRUE, value |-> S_T1],
     scripts |-> <<[has_string |-> TRUE, module_id |-> S_77, tab_id |-> S_9]>>]

NoBody == [json |-> "invalid", keys |-> {}, result |-> "None", data |-> JsonNull]

JsonObject(keys, result, journeys) ==
    [json |-> "object", keys |-> keys, result |-> result, data |-> journeys]

PostTimeout == [kind |-> "timeout", status |-> 0, body |-> NoBody]

PostResponse(status, body) == [kind |-> "response", status |-> status, body |-> body]

TwoJourneys == JsonList(<<JourneyWithLegs(1, JsonList(<<TripWalk, TripBus>>)),
                          JourneyWithLegs(2, JsonList(<<>>))>>)

SuccessBody(journeys) == JsonObject({"result", "data"}, "success", journeys)

PollPrimeChoices == {PrimeTimeout, PrimeResponse(200, PageWithTokens)}

PollPostChoices ==
    {PostTimeout,
     PostResponse(200, NoBody),
     PostResponse(404, SuccessBody(TwoJourneys)),
     PostResponse(300, SuccessBody(TwoJourneys)),
     PostResponse(200, JsonObject({"result", "data"}, "error", TwoJourneys)),
     PostResponse(200, SuccessBody(TwoJourneys))}

-----------------------------------------------------------------------------
(* __init__.py, the options flow of config_flow.py and __init__ of the     *)
(* coordinator: config entries, their setup and unload, the refresh        *)
(* service.  hass.data[DOMAIN] is the map runtime (entry id -> RuntimeData) *)
(* together with the flag marker (the key "services_registered").          *)

DEFAULT_SCAN_INTERVAL == 300

MIN_SCAN_INTERVAL == 60

EntryIds == {"e1", "e2"}

\* the keys of config_entry.data["routes"] of the two entries
EntryRoutes(entry_id) == IF entry_id = "e1" THEN {"A", "B"} ELSE {"B", "C"}

\* config_entry.options without CONF_SCAN_INTERVAL
NoOptions == <<>>

\* a form value: one that int() rejects has coercible = FALSE
FormValue(coercible, value) == [coercible |-> coercible, value |-> value]

NothingSubmitted == [submitted |-> FALSE, input |-> FormValue(FALSE, 0)]

\* a schema that coerces and does not clamp
ScanIntervalSchemaNoClamp(v) ==
    IF ~v.coercible THEN [valid |-> FALSE, value |-> 0]
    ELSE [valid |-> TRUE, value |-> v.value]

\* line 451: vol.All(vol.Coerce(int), vol.Clamp(min=MIN_SCAN_INTERVAL))
ScanIntervalSchema(v) ==
    IF ~v.coercible THEN [valid |-> FALSE, value |-> 0]
    ELSE [valid |-> TRUE,
          value |-> IF v.value < MIN_SCAN_INTERVAL THEN MIN_SCAN_INTERVAL ELSE v.value]

\* async_step_init (lines 439-443) on the validated input: the options the
\* entry is given; an input the schema rejects shows the form again
OptionsAfterSubmit(options, v) ==
    LET checked == ScanIntervalSchema(v)
    IN  IF checked.valid THEN <<checked.value>> ELSE options

\* coordinator.py lines 74-76: options.get(CONF_SCAN_INTERVAL, DEFAULT_SCAN_INTERVAL)
PollInterval(options) == IF options = NoOptions THEN DEFAULT_SCAN_INTERVAL ELSE options[1]

\* TransperthJourneyCoordinator(hass, config_entry): update_interval is
\* timedelta(seconds=self.poll_interval) (line 107)
NewCoordinator(entry_id, options) ==
    [routes |-> EntryRoutes(entry_id), poll_interval |-> PollInterval(options),
     update_interval |-> PollInterval(options)]

\* hass before the integration is touched
NewHass == [domain |-> FALSE, runtime |-> EmptyMap, marker |-> FALSE,
            services |-> {}, registrations |-> 0]

\* a check on the loaded entries in place of the marker
ServicesMissingFirstEntry(h) == Cardinality(DOMAIN h.runtime) =< 1

\* line 56: DOMAIN not in hass.data or "services_registered" not in hass.data[DOMAIN]
ServicesMissing(h) == ~h.domain \/ ~h.marker

\* lines 91-103: hass.services.async_register and the marker
RegisterServices(h) ==
    [h EXCEPT !.services = h.services \cup {"refresh"},
              !.registrations = h.registrations + 1,
              !.domain = TRUE,
              !.marker = TRUE]

\* async_setup_entry (lines 33-105); ready is FALSE when the first refresh
\* raises ConfigEntryNotReady (line 42)
AsyncSetupEntry(h, entry_id, options, ready) ==
    LET h1 == [h EXCEPT !.domain = TRUE]
        h2 == [h1 EXCEPT !.runtime = Put(h1.runtime, entry_id,
                                         NewCoordinator(entry_id, options))]
    IN  IF ~ready THEN h1
        ELSE IF ServicesMissing(h2) THEN RegisterServices(h2) ELSE h2

Without(m, k) == [x \in (DOMAIN m) \ {k} |-> m[x]]

\* async_unload_entry (lines 113-128)
AsyncUnloadEntry(h, entry_id, unload_ok) ==
    IF unload_ok THEN [h EXCEPT !.runtime = Without(h.runtime, entry_id)] ELSE h

\* call.data.get(key): absent, or the string given
Absent == [given |-> FALSE, value |-> ""]

Given(s) == [given |-> TRUE, value |-> s]

\* the truth value of an optional string
TruthyOpt(o) == o.given /\ o.value # ""

\* every selected coordinator refreshed, whatever the route name
RouteRefreshedAlways(route_name, coordinator_routes) == TRUE

\* lines 79-89: whether the loop requests a refresh on a coordinator
RouteRefreshed(route_name, coordinator_routes) ==
    IF TruthyOpt(route_name) THEN route_name.value \in coordinator_routes ELSE TRUE

Warning(kind, entry_id) == [kind |-> kind, entry_id |-> entry_id]

ServiceResult(raised, refreshed, warnings) ==
    [raised |-> raised, refreshed |-> refreshed, warnings |-> warnings]

\* async_refresh_data (lines 57-89): the coordinators it requests a refresh
\* on, the warnings it logs and the exception that leaves it.  With
\* config_entry_id "services_registered" line 67 reads .coordinator of True.
AsyncRefreshData(h, route_name, config_entry_id) ==
    IF TruthyOpt(config_entry_id) /\ config_entry_id.value = "services_registered" /\ h.marker
    THEN ServiceResult("AttributeError", {}, {})
    ELSE
    LET coordinators ==
            IF TruthyOpt(config_entry_id)
            THEN {e \in DOMAIN h.runtime : e = config_entry_id.value}
            ELSE DOMAIN h.runtime
    IN  IF coordinators = {}
        THEN ServiceResult("none", {}, {Warning("no_entries", "")})
        ELSE ServiceResult("none",
                 {e \in coordinators : RouteRefreshed(route_name, h.runtime[e].routes)},
                 {Warning("route_not_found", e) :
                     e \in {c \in coordinators :
                               ~RouteRefreshed(route_name, h.runtime[c].routes)}})

NoServiceCall == [made |-> FALSE, route_name |-> Absent, config_entry_id |-> Absent,
                  loaded |-> {}, result |-> ServiceResult("none", {}, {})]

-----------------------------------------------------------------------------
(* config_flow.py: the setup flow.  Of the fields of a route the model     *)
(* keeps CONF_FROM, CONF_DATE and CONF_TIME; the others are stored by the   *)
(* same "user_input.get(k) or parsed_data.get(k, default)" expression.      *)

S_tomorrow == <<"t", "o", "m", "o", "r", "r", "o", "w">>

S_custom == <<"c", "u", "s", "t", "o", "m">>

S_good_url == <<"g", "o", "o", "d">>

S_bad_url == <<"b", "a", "d">>

\* user_input of the add-route form
RouteForm(route_name, from, date_selection, custom_date, time) ==
    [route_name |-> route_name, from |-> from, date_selection |-> date_selection,
     custom_date |-> custom_date, time |-> time]

\* getattr(self, '_parsed_url_data', {}) when the attribute is not set
NoParsedData == [keys |-> {}, from |-> <<>>, time |-> <<>>]

ParsedData(from, time) == [keys |-> {"from", "time"}, from |-> from, time |-> time]

\* _parse_journey_url (lines 59-140) on the two sample URLs: a dict for a
\* journey-planner URL, None (no keys, falsy) for another text
ParseJourneyUrl(url) == IF url = S_good_url THEN ParsedData(S_Freo, S_time_lit) ELSE NoParsedData

\* user_input.get(k) or parsed_data.get(k, default)
OrParsed(given, parsed_data, k, default) ==
    IF Truthy(given) THEN given ELSE Get(parsed_data, k, default)

\* lines 223-229
StoredDate(date_selection, custom_date) ==
    IF date_selection = S_custom
    THEN IF Truthy(custom_date) THEN custom_date ELSE S_today
    ELSE date_selection

\* lines 232-269
StoredRoute(user_input, parsed_data) ==
    [from |-> OrParsed(user_input.from, parsed_data, "from", <<>>),
     date |-> StoredDate(user_input.date_selection, user_input.custom_date),
     time |-> OrParsed(user_input.time, parsed_data, "time", <<>>)]

\* a form check that only asks for a name
AddRouteErrorRequiredOnly(route_name, flow_routes) ==
    IF ~Truthy(route_name) THEN "required" ELSE "none"

\* lines 217-220, on the stripped route name
AddRouteError(route_name, flow_routes) ==
    IF ~Truthy(route_name) THEN "required"
    ELSE IF route_name \in DOMAIN flow_routes THEN "duplicate"
    ELSE "none"

NoEntry == [created |-> FALSE, routes |-> EmptyMap]

NoSubmission == [handler |-> "", route_name |-> <<>>]

\* the flow before async_step_user
NewFlow == [step |-> "user", routes |-> EmptyMap, parsed |-> NoParsedData,
            errors |-> "none", entry |-> NoEntry,
            first |-> EmptyMap, last |-> NoSubmission]

\* async_step_user (lines 154-176) with a user_input
AsyncStepUser(f, config_method) ==
    [f EXCEPT !.step = IF config_method = "url" THEN "quick_config" ELSE "add_route",
              !.errors = "none"]

\* a quick-config step that ends the flow once the URL is parsed
AsyncStepQuickConfigCreates(f, journey_url) ==
    LET url == Strip(journey_url)
        parsed == ParseJourneyUrl(url)
    IN  IF ~Truthy(url) THEN [f EXCEPT !.errors = "required"]
        ELSE IF parsed.keys = {} THEN [f EXCEPT !.errors = "invalid_url"]
        ELSE [f EXCEPT !.parsed = parsed, !.step = "done", !.errors = "none",
                       !.entry = [created |-> TRUE, routes |-> f.routes]]

\* async_step_quick_config (lines 178-204) with a user_input
AsyncStepQuickConfig(f, journey_url) ==
    LET url == Strip(journey_url)
        parsed == ParseJourneyUrl(url)
    IN  IF ~Truthy(url) THEN [f EXCEPT !.errors = "required"]
        ELSE IF parsed.keys = {} THEN [f EXCEPT !.errors = "invalid_url"]
        ELSE [f EXCEPT !.parsed = parsed, !.step = "add_route", !.errors = "none"]

\* async_step_add_route (lines 206-276) with a user_input
AsyncStepAddRoute(f, user_input) ==
    LET route_name == Strip(user_input.route_name)
        error == AddRouteError(route_name, f.routes)
    IN  IF error # "none" THEN [f EXCEPT !.step = "add_route", !.errors = error]
        ELSE [f EXCEPT !.routes = Put(f.routes, route_name,
                                      StoredRoute(user_input, f.parsed)),
                       !.parsed = NoParsedData,
                       !.step = "add_another",
                       !.errors = "none"]

\* async_step_add_another (lines 399-414) with a user_input
AsyncStepAddAnother(f, add_another) ==
    IF add_another \/ DOMAIN f.routes = {}
    THEN [f EXCEPT !.step = "add_route", !.errors = "none"]
    ELSE [f EXCEPT !.step = "done", !.entry = [created |-> TRUE, routes |-> f.routes]]

\* nothing set up, no service call, no flow started
SetupIdle ==
    /\ entries = [e \in EntryIds |-> [options |-> NoOptions, last |-> NothingSubmitted]]
    /\ hass = NewHass
    /\ call = NoServiceCall
    /\ flow = NewFlow

-----------------------------------------------------------------------------
(* coordinator.py: the poll orchestrator *)

\* coordinator.data before the first refresh
NoData == [valid |-> FALSE, routes |-> EmptyMap]

\* TransperthJourneyData(routes=...)
TransperthJourneyData(rd) == [valid |-> TRUE, routes |-> rd]

\* a read that has not happened
NotRead == [read |-> FALSE, value |-> NoData]

NoCall == [route |-> "", cfg_date |-> None, cfg_time |-> None, args_date |-> None,
           args_time |-> None, post |-> PostTimeout, raised |-> "none", net |-> <<>>]

\* a dict that starts from the entries of the previous snapshot
NewRoutesDataCarryOver(prev) == prev.routes

\* line 127: routes_data = {}
NewRoutesData(prev) == EmptyMap

\* a failed route stored with no options
AfterFetchStoreFailed(rd, route_name, res) ==
    IF res.raised = "none" THEN Put(rd, route_name, res.value)
    ELSE Put(rd, route_name, JourneyData(<<>>, <<>>, <<>>, <<>>, <<>>))

\* lines 154 and 160-165: the result is stored when the call returned
AfterFetch(rd, route_name, res) ==
    IF res.raised = "none" THEN Put(rd, route_name, res.value) ELSE rd

\* a handler for transport errors only
PropagatesUnlessRequest(err) == err \notin {"none", "RequestException", "HTTPError"}

\* line 160: except Exception catches every error of the fetch
Propagates(err) == FALSE

\* the new entries written into the published snapshot as they arrive
PublishedDuringCycleInPlace(d, rd) == TransperthJourneyData(rd)

\* lines 127 and 154: routes_data is a local dict; coordinator.data is not
\* touched while the loop runs
PublishedDuringCycle(d, rd) == d

\* a default date computed once, when the coordinator is built
ResolveDateFrozen(cfg_date, t) == IF Truthy(cfg_date) THEN cfg_date ELSE FormatDate(ClockStart)

\* line 133: route_config.date or self._get_default_date()
ResolveDate(cfg_date, t) == IF Truthy(cfg_date) THEN cfg_date ELSE FormatDate(t)

\* line 134: route_config.time or self._get_default_time()
ResolveTime(cfg_time, t) == IF Truthy(cfg_time) THEN cfg_time ELSE FormatTime(t)

PollInit ==
    /\ now = ClockStart
    /\ routes \in RegistryChoices
    /\ api = NewApi
    /\ pc = "idle"
    /\ idx = 1
    /\ routes_data = EmptyMap
    /\ data = NoData
    /\ seen = NotRead
    /\ returned = NoData
    /\ outcome = EmptyMap
    /\ last_call = NoCall
    /\ date_log = {}

\* the wall clock moves on
ClockAdvance ==
    /\ now # ClockAt(MaxClockSteps)
    /\ now' = Advance(now)
    /\ seen' = NotRead
    /\ UNCHANGED <<routes, api, pc, idx, routes_data, data, returned, outcome,
                   last_call, date_log>>

\* async_update_data is entered (line 127)
StartCycle ==
    /\ pc = "idle"
    /\ pc' = "running"
    /\ idx' = 1
    /\ routes_data' = NewRoutesData(data)
    /\ outcome' = EmptyMap
    /\ last_call' = NoCall
    /\ seen' = NotRead
    /\ UNCHANGED <<now, routes, api, data, returned, date_log>>

\* one pass of the for loop (lines 129-165)
FetchRoute ==
    /\ pc = "running"
    /\ idx =< Len(RouteOrder)
    /\ \E prime \in PollPrimeChoices, post \in PollPostChoices :
          LET route_name == RouteOrder[idx]
              route_config == routes[route_name]
              date == ResolveDate(route_config.date, now)
              time == ResolveTime(route_config.time, now)
              args == [route_config EXCEPT !.date = date, !.time = time]
          IN  \E res \in {GetJourneyOptions(api, args, prime, post)} :
              /\ api' = res.api
              /\ routes_data' = AfterFetch(routes_data, route_name, res)
              /\ data' = PublishedDuringCycle(data, routes_data')
              /\ outcome' = Put(outcome, route_name,
                                IF res.raised = "none" THEN "ok" ELSE "raised")
              /\ last_call' = [route |-> route_name, cfg_date |-> route_config.date,
                               cfg_time |-> route_config.time,
                               args_date |-> date, args_time |-> time,
                               post |-> post, raised |-> res.raised, net |-> res.net]
              /\ date_log' = IF route_config.date = S_today
                             THEN date_log \cup {<<route_name, FormatDate(now), date>>}
                             ELSE date_log
              /\ IF Propagates(res.raised)
                 THEN pc' = "raised" /\ idx' = idx
                 ELSE pc' = pc /\ idx' = idx + 1
    /\ seen' = NotRead
    /\ UNCHANGED <<now, routes, returned>>

\* an update that adds the fetched entries to the previous snapshot
FinishCycleMerge ==
    /\ pc = "running"
    /\ idx > Len(RouteOrder)
    /\ data' = TransperthJourneyData(
                   [r \in DOMAIN data.routes \cup DOMAIN routes_data |->
                       IF r \in DOMAIN routes_data THEN routes_data[r] ELSE data.routes[r]])
    /\ returned' = data'
    /\ pc' = "idle"
    /\ seen' = NotRead
    /\ UNCHANGED <<now, routes, api, idx, routes_data, outcome, last_call, date_log>>

\* line 167 and the assignment of the returned value to coordinator.data
FinishCycle ==
    /\ pc = "running"
    /\ idx > Len(RouteOrder)
    /\ data' = TransperthJourneyData(routes_data)
    /\ returned' = TransperthJourneyData(routes_data)
    /\ pc' = "idle"
    /\ seen' = NotRead
    /\ UNCHANGED <<now, routes, api, idx, routes_data, outcome, last_call, date_log>>

\* a sensor reads coordinator.data (sensor.py line 83)
ReadSnapshot ==
    /\ seen' = [read |-> TRUE, value |-> data]
    /\ UNCHANGED <<now, routes, api, pc, idx, routes_data, data, returned,
                   outcome, last_call, date_log>>

Init == PollInit /\ SetupIdle /\ fin = <<>> /\ fout = <<>>

Next ==
    \/ ClockAdvance /\ UNCHANGED <<fin, fout, setupVars>>
    \/ StartCycle /\ UNCHANGED <<fin, fout, setupVars>>
    \/ FetchRoute /\ UNCHANGED <<fin, fout, setupVars>>
    \/ FinishCycle /\ UNCHANGED <<fin, fout, setupVars>>
    \/ ReadSnapshot /\ UNCHANGED <<fin, fout, setupVars>>

Spec == Init /\ [][Next]_vars

-----------------------------------------------------------------------------
(* sensor.py: the journey option sensor *)

S_arrow == <<" ", "→", " ">>

\* line 41: range(1, 6)
OptionSlots == 1..5

\* line 96: f"{option.leave_time} → {option.arrive_time}"
DisplayValue(option) == option.leave_time \o S_arrow \o option.arrive_time

NothingSelected == [found |-> FALSE, route_data |-> NoJourneyData, option |-> NoOption]

\* a sensor that shows the first option in every slot
SelectedOptionFirst(d, route_name, option_index) ==
    IF ~d.valid \/ DOMAIN d.routes = {} THEN NothingSelected
    ELSE IF route_name \notin DOMAIN d.routes THEN NothingSelected
    ELSE IF d.routes[route_name].options = <<>> THEN NothingSelected
    ELSE [found |-> TRUE, route_data |-> d.routes[route_name],
          option |-> d.routes[route_name].options[1]]

\* lines 83-95 and 106-117: the guards and the 0-based index option_index - 1
SelectedOption(d, route_name, option_index) ==
    IF ~d.valid \/ DOMAIN d.routes = {} THEN NothingSelected
    ELSE IF route_name \notin DOMAIN d.routes THEN NothingSelected
    ELSE IF d.routes[route_name].options = <<>> THEN NothingSelected
    ELSE LET option_idx == option_index - 1
         IN  IF option_idx >= Len(d.routes[route_name].options) THEN NothingSelected
             ELSE [found |-> TRUE, route_data |-> d.routes[route_name],
                   option |-> d.routes[route_name].options[option_idx + 1]]

\* native_value (lines 80-96)
NativeValue(d, route_name, option_index) ==
    LET sel == SelectedOption(d, route_name, option_index)
    IN  IF sel.found THEN DisplayValue(sel.option) ELSE None

DetailKeys == {"leave_time", "arrive_time", "travel_time", "from_location",
               "to_location", "date", "time", "legs", "leg_count"}

\* extra_state_attributes (lines 98-140)
ExtraStateAttributes(d, route_name, option_index) ==
    LET sel == SelectedOption(d, route_name, option_index)
    IN  [keys |-> {"route_name", "option_index"} \cup (IF sel.found THEN DetailKeys ELSE {}),
         route_name |-> route_name,
         option_index |-> option_index,
         leave_time |-> sel.option.leave_time,
         arrive_time |-> sel.option.arrive_time,
         travel_time |-> sel.option.travel_time,
         from_location |-> sel.route_data.from_location,
         to_location |-> sel.route_data.to_location,
         date |-> sel.route_data.date,
         time |-> sel.route_data.time,
         legs |-> sel.option.legs,
         leg_count |-> Len(sel.option.legs)]

-----------------------------------------------------------------------------
(* One call of get_journey_options on a fresh client, for every input *)

TextChoices == {None, <<>>, <<" ">>, <<" ", "\t">>, S_Perth, <<" ">> \o S_Perth}

TransportChoices ==
    {None, <<>>, <<"bus">>, <<"train">>, <<"ferry">>, <<"school_bus">>, <<"tram">>,
     <<"bus", "train">>, <<"ferry", "school_bus">>, <<"bus", "train", "ferry", "school_bus">>}

\* the locations and positions vary, or the transport options do
ArgsChoices ==
    {Args(fl, fp, tl, tp, S_date_lit, S_time_lit, "leave_after", <<"bus", "train">>) :
        fl \in TextChoices, fp \in TextChoices, tl \in TextChoices, tp \in TextChoices}
    \cup
    {Args(S_Perth, S_pos, S_Freo, S_pos2, S_date_lit, S_time_lit, "leave_after", topts) :
        topts \in TransportChoices}

FetchUpstreamChoices ==
    {<<PrimeTimeout, PostResponse(200, SuccessBody(TwoJourneys))>>,
     <<PrimeResponse(200, PageWithTokens), PostResponse(200, SuccessBody(TwoJourneys))>>,
     <<PrimeResponse(200, PageWithTokens), PostTimeout>>}

NotCalled == [called |-> FALSE, res |-> [raised |-> "none", value |-> NoJourneyData,
                                          api |-> NewApi, net |-> <<>>]]

PollIdle ==
    /\ now = ClockStart
    /\ routes = Registry(RouteLiteral, RouteLiteral, RouteLiteral)
    /\ api = NewApi
    /\ pc = "idle"
    /\ idx = 1
    /\ routes_data = EmptyMap
    /\ data = NoData
    /\ seen = NotRead
    /\ returned = NoData
    /\ outcome = EmptyMap
    /\ last_call = NoCall
    /\ date_log = {}

FetchInit ==
    /\ PollIdle
    /\ SetupIdle
    /\ fin \in {[args |-> a, prime |-> u[1], post |-> u[2]] :
                   a \in ArgsChoices, u \in FetchUpstreamChoices}
    /\ fout = NotCalled

\* get_journey_options is called with the drawn arguments
CallGetJourneyOptions ==
    /\ ~fout.called
    /\ fout' = [called |-> TRUE,
                res |-> GetJourneyOptions(api, fin.args, fin.prime, fin.post)]
    /\ api' = fout'.res.api
    /\ UNCHANGED <<now, routes, pc, idx, routes_data, data, seen, returned,
                   outcome, last_call, date_log, fin, setupVars>>

FetchNext == CallGetJourneyOptions

SpecFetch == FetchInit /\ [][FetchNext]_vars

-----------------------------------------------------------------------------
(* One call of _parse_json_journey_options, for every payload *)

\* the longest journey list
MaxJourneys == 3

JourneyTwoLegs == JourneyWithLegs(1, JsonList(<<TripWalk, TripBus>>))

\* no "JnyTripDetails" key
JourneyNoLegs ==
    Journey(JourneyAllKeys \ {"JnyTripDetails"}, S_0805, S_0910, S_65mins, 2, JsonList(<<>>))

\* "JnyTripDetails": null
JourneyNullTrips == JourneyWithLegs(3, JsonNull)

\* the second of three legs has "TripVehicle": null
JourneyNullVehicleLeg == JourneyWithLegs(4, JsonList(<<TripWalk, TripNullVehicle, TripBus>>))

\* the first of two legs is not an object
JourneyStringLeg == JourneyWithLegs(5, JsonList(<<TripNotObject, TripBus>>))

JourneyChoices == {JourneyTwoLegs, JourneyNoLegs, JourneyNotObject, JourneyNullTrips,
                   JourneyNullVehicleLeg, JourneyStringLeg}

SeqsUpTo(S, n) == UNION {[1..k -> S] : k \in 0..n}

PayloadChoices == {JsonNull} \cup {JsonList(items) : items \in SeqsUpTo(JourneyChoices, MaxJourneys)}

NotParsed == [done |-> FALSE, raised |-> FALSE, traced |-> <<>>]

ParseInit ==
    /\ PollIdle
    /\ SetupIdle
    /\ fin \in PayloadChoices
    /\ fout = NotParsed

\* _parse_json_journey_options is called with the drawn payload
CallParseJson ==
    /\ ~fout.done
    /\ LET r == ParseJsonTraced(fin)
       IN  fout' = [done |-> TRUE, raised |-> r.raised, traced |-> r.traced]
    /\ UNCHANGED <<pollVars, fin, setupVars>>

ParseNext == CallParseJson

SpecParse == ParseInit /\ [][ParseNext]_vars

-----------------------------------------------------------------------------
(* One reading of a sensor, for every snapshot, route and slot *)

\* the longest option list of a snapshot
MaxOptions == 5

S_am == <<":", "0", "5", "a", "m">>

\* the n-th option of a route, leaving at n:05am and arriving an hour later
OptionAt(n) ==
    JourneyOption(<<Digit(n)>> \o S_am, <<Digit(n + 1)>> \o S_am, S_65mins,
                  <<JourneyLeg("bus", S_276, S_276)>>, n)

RouteDataOf(len) ==
    JourneyData([i \in 1..len |-> OptionAt(i)], S_Perth, S_Freo, S_date_lit, S_time_lit)

SensorRoutesChoices ==
    {[r \in {"A"} |-> RouteDataOf(len)] : len \in 0..MaxOptions}
    \cup {[r \in {"A", "B"} |-> IF r = "A" THEN RouteDataOf(len) ELSE RouteDataOf(2)] :
             len \in 0..MaxOptions}
    \cup {[r \in {"B"} |-> RouteDataOf(2)]}

SnapshotChoices ==
    {NoData, TransperthJourneyData(EmptyMap)}
    \cup {TransperthJourneyData(m) : m \in SensorRoutesChoices}

NotEvaluated == [done |-> FALSE, value |-> None,
                 attrs |-> ExtraStateAttributes(NoData, "", 0)]

SensorInit ==
    /\ PollIdle
    /\ SetupIdle
    /\ fin \in {[data |-> d, route_name |-> r, option_index |-> k] :
                   d \in SnapshotChoices, r \in RouteNames, k \in OptionSlots}
    /\ fout = NotEvaluated

\* the state and the attributes of the sensor are read
ReadSensor ==
    /\ ~fout.done
    /\ fout' = [done |-> TRUE,
                value |-> NativeValue(fin.data, fin.route_name, fin.option_index),
                attrs |-> ExtraStateAttributes(fin.data, fin.route_name, fin.option_index)]
    /\ UNCHANGED <<pollVars, fin, setupVars>>

SensorNext == ReadSensor

SpecSensor == SensorInit /\ [][SensorNext]_vars

-----------------------------------------------------------------------------
(* A sequence of get_journey_options calls on one client, as the           *)
(* coordinator makes them on self.api                                      *)

\* the number of calls made on the client
MaxFetches == 3

DepartureOptions == {"leave_after", "arrive_by", "earliest_trip", "last_trip"}

ClientArgsChoices == {[RouteLiteral EXCEPT !.departure_option = d] : d \in DepartureOptions}

\* a page with the token input and one script element without text
PageTokenOnly ==
    [token_input |-> [present |-> TRUE, value |-> S_T1],
     scripts |-> <<[has_string |-> FALSE, module_id |-> None, tab_id |-> None]>>]

ClientPrimeChoices ==
    {PrimeTimeout,
     PrimeResponse(503, PageWithTokens),
     PrimeResponse(200, PageWithTokens),
     PrimeResponse(200, PageTokenOnly),
     PrimeResponse(200, NoPage)}

OneJourney == JsonList(<<JourneyWithLegs(1, JsonList(<<TripBus>>))>>)

ClientPostChoices ==
    {PostTimeout,
     PostResponse(200, JsonObject({"result", "data"}, "error", OneJourney)),
     PostResponse(200, SuccessBody(OneJourney))}

NoFetch == [args |-> RouteLiteral, prime |-> PrimeTimeout, post |-> PostTimeout]

NoPrevious == [called |-> FALSE, args |-> RouteLiteral, net |-> <<>>]

ClientInit ==
    /\ PollIdle
    /\ SetupIdle
    /\ fin = NoFetch
    /\ fout = [n |-> 0, res |-> NotCalled.res, prev |-> NoPrevious]

\* the next call on the client; fout keeps its result and, of the call
\* before it, the arguments and the requests issued
ClientFetch ==
    /\ fout.n < MaxFetches
    /\ \E args \in ClientArgsChoices, prime \in ClientPrimeChoices, post \in ClientPostChoices :
          \E res \in {GetJourneyOptions(api, args, prime, post)} :
              /\ api' = res.api
              /\ fin' = [args |-> args, prime |-> prime, post |-> post]
              /\ fout' = [n |-> fout.n + 1, res |-> res,
                          prev |-> [called |-> fout.n > 0, args |-> fin.args,
                                    net |-> fout.res.net]]
    /\ UNCHANGED <<now, routes, pc, idx, routes_data, data, seen, returned,
                   outcome, last_call, date_log, setupVars>>

ClientNext == ClientFetch

SpecClient == ClientInit /\ [][ClientNext]_vars

-----------------------------------------------------------------------------
(* Config entries set up, unloaded and reconfigured; the refresh service   *)
(* called with every combination of its two optional arguments             *)

ScanInputChoices ==
    {FormValue(FALSE, 0)} \cup {FormValue(TRUE, v) : v \in {-5, 59, 60, 300}}

RouteNameChoices == {Absent, Given(""), Given("A"), Given("B"), Given("Z")}

EntryIdChoices == {Absent, Given("e1"), Given("e2"), Given("e9"), Given("services_registered")}

EntryInit ==
    /\ PollIdle
    /\ SetupIdle
    /\ fin = <<>>
    /\ fout = <<>>

\* async_setup_entry for an entry that is not loaded
SetupEntry ==
    /\ \E e \in EntryIds, ready \in BOOLEAN :
          /\ e \notin DOMAIN hass.runtime
          /\ hass' = AsyncSetupEntry(hass, e, entries[e].options, ready)
    /\ UNCHANGED <<pollVars, fin, fout, entries, call, flow>>

\* async_unload_entry for a loaded entry
UnloadEntry ==
    /\ \E e \in DOMAIN hass.runtime, unload_ok \in BOOLEAN :
          hass' = AsyncUnloadEntry(hass, e, unload_ok)
    /\ UNCHANGED <<pollVars, fin, fout, entries, call, flow>>

\* the options form is submitted; an accepted input is stored in the entry
\* and the update listener (lines 108-110) reloads a loaded entry
SubmitOptions ==
    /\ \E e \in EntryIds, v \in ScanInputChoices :
          LET options == OptionsAfterSubmit(entries[e].options, v)
          IN  /\ entries' = [entries EXCEPT ![e] =
                                [options |-> options,
                                 last |-> [submitted |-> TRUE, input |-> v]]]
              /\ hass' = IF e \in DOMAIN hass.runtime /\ options # entries[e].options
                         THEN AsyncSetupEntry(AsyncUnloadEntry(hass, e, TRUE), e, options, TRUE)
                         ELSE hass
    /\ UNCHANGED <<pollVars, fin, fout, call, flow>>

\* the registered service is called
CallRefresh ==
    /\ "refresh" \in hass.services
    /\ \E route_name \in RouteNameChoices, config_entry_id \in EntryIdChoices :
          call' = [made |-> TRUE, route_name |-> route_name,
                   config_entry_id |-> config_entry_id,
                   loaded |-> DOMAIN hass.runtime,
                   result |-> AsyncRefreshData(hass, route_name, config_entry_id)]
    /\ UNCHANGED <<pollVars, fin, fout, entries, hass, flow>>

EntryNext == SetupEntry \/ UnloadEntry \/ SubmitOptions \/ CallRefresh

SpecEntry == EntryInit /\ [][EntryNext]_vars

-----------------------------------------------------------------------------
(* From a payload to the sensor of a slot: the payload of one route is    *)
(* parsed and stored, then the sensor of one slot of that route is read.   *)
(* The upstream numbers its entries by position.                           *)

\* the entry at position n of a payload: well-formed, not an object, or
\* with a leg whose vehicle kind is null
EntryChoicesAt(n) ==
    {JourneyWithLegs(n, JsonList(<<TripWalk, TripBus>>)),
     JourneyNotObject,
     JourneyWithLegs(n, JsonList(<<TripNullVehicle>>))}

NumberedPayloads ==
    {JsonList(items) :
        items \in {s \in SeqsUpTo(UNION {EntryChoicesAt(n) : n \in 1..MaxJourneys}, MaxJourneys) :
                      \A n \in 1..Len(s) : s[n] \in EntryChoicesAt(n)}}

NoSlotRead == [stored |-> FALSE, read |-> FALSE, data |-> NoData, selected |-> NothingSelected]

SlotInit ==
    /\ PollIdle
    /\ SetupIdle
    /\ fin \in {[payload |-> p, option_index |-> k] : p \in NumberedPayloads, k \in OptionSlots}
    /\ fout = NoSlotRead

\* the payload is parsed and its options become the entry of route A
StorePayload ==
    /\ ~fout.stored
    /\ LET r == ParseJsonJourneyOptions(fin.payload)
           journey_data == JourneyData(r.options, S_Perth, S_Freo, S_date_lit, S_time_lit)
       IN  fout' = [fout EXCEPT
                       !.stored = TRUE,
                       !.data = TransperthJourneyData(Put(EmptyMap, "A", journey_data))]
    /\ UNCHANGED <<pollVars, fin, setupVars>>

\* the sensor of the slot selects its option
ReadSlot ==
    /\ fout.stored
    /\ ~fout.read
    /\ fout' = [fout EXCEPT !.read = TRUE,
                            !.selected = SelectedOption(fout.data, "A", fin.option_index)]
    /\ UNCHANGED <<pollVars, fin, setupVars>>

SlotNext == StorePayload \/ ReadSlot

SpecSlot == SlotInit /\ [][SlotNext]_vars

-----------------------------------------------------------------------------
(* The refresh triggers of one coordinator: the scheduled tick, the        *)
(* refresh button of each route and the refresh service.  Each of them     *)
(* makes the coordinator call its update_method (coordinator.py line 106); *)
(* a request made while an update runs waits for it.  A fetch is two       *)
(* steps, the call handed to the executor and its return.                  *)

\* the position of the update: what triggered it, the route the trigger
\* named, the keys of the snapshot at that moment, the routes whose fetch
\* was started and the fetches that have not returned
NoTrigger == [trigger |-> "none", route |-> "", before |-> {}, started |-> <<>>, inflight |-> {}]

Triggered(kind, route_name) ==
    [trigger |-> kind, route |-> route_name, before |-> DOMAIN data.routes,
     started |-> <<>>, inflight |-> {}]

\* the loaded entry e1 with the coordinator of the registry
RefreshHass ==
    RegisterServices([NewHass EXCEPT
        !.domain = TRUE,
        !.runtime = Put(EmptyMap, "e1",
                        [NewCoordinator("e1", NoOptions) EXCEPT !.routes = RouteNames])])

RefreshInit ==
    /\ PollIdle
    /\ entries = [e \in EntryIds |-> [options |-> NoOptions, last |-> NothingSubmitted]]
    /\ hass = RefreshHass
    /\ call = NoServiceCall
    /\ flow = NewFlow
    /\ fin = NoTrigger
    /\ fout = <<>>

\* update_interval has elapsed
ScheduledTick ==
    /\ StartCycle
    /\ fin' = Triggered("tick", "")
    /\ UNCHANGED <<fout, setupVars>>

\* a button that fetches its own route and patches the snapshot
PressButtonOwnFetch ==
    /\ pc = "idle"
    /\ \E route_name \in RouteNames, prime \in PollPrimeChoices, post \in PollPostChoices :
          \E res \in {GetJourneyOptions(api, routes[route_name], prime, post)} :
              /\ api' = res.api
              /\ data' = IF res.raised = "none"
                         THEN TransperthJourneyData(Put(data.routes, route_name, res.value))
                         ELSE data
              /\ fin' = Triggered("button", route_name)
    /\ UNCHANGED <<now, routes, pc, idx, routes_data, seen, returned, outcome,
                   last_call, date_log, fout, setupVars>>

\* button.py async_press (lines 71-74) of the button of a route
PressButton ==
    /\ \E route_name \in RouteNames :
          /\ StartCycle
          /\ fin' = Triggered("button", route_name)
    /\ UNCHANGED <<fout, setupVars>>

RefreshRouteNames == {Absent, Given("A"), Given("B"), Given("Z")}

RefreshEntryIds == {Absent, Given("e1"), Given("e9")}

\* the refresh service is called (__init__.py lines 57-89): a refresh is
\* requested on the coordinator when the handler selects it
CallRefreshService ==
    /\ pc = "idle"
    /\ \E route_name \in RefreshRouteNames, config_entry_id \in RefreshEntryIds :
          \E res \in {AsyncRefreshData(hass, route_name, config_entry_id)} :
              IF "e1" \in res.refreshed
              THEN /\ StartCycle
                   /\ fin' = Triggered("service",
                                       IF TruthyOpt(route_name) THEN route_name.value ELSE "")
              ELSE UNCHANGED <<pollVars, fin>>
    /\ UNCHANGED <<fout, setupVars>>

\* a loop that hands every call to the executor without waiting
AwaitedNever(inflight) == TRUE

\* line 136: the loop is suspended at its await until the call has returned
Awaited(inflight) == inflight = {}

\* lines 129-136: the next pass of the loop hands its call to the executor
BeginFetch ==
    /\ pc = "running"
    /\ Len(fin.started) < Len(RouteOrder)
    /\ Awaited(fin.inflight)
    /\ LET route_name == RouteOrder[Len(fin.started) + 1]
       IN  fin' = [fin EXCEPT !.started = Append(fin.started, route_name),
                              !.inflight = fin.inflight \cup {route_name}]
    /\ UNCHANGED <<pollVars, fout, setupVars>>

\* lines 136-165: the call returns or raises and the pass ends
EndFetch ==
    /\ pc = "running"
    /\ idx =< Len(RouteOrder)
    /\ RouteOrder[idx] \in fin.inflight
    /\ FetchRoute
    /\ fin' = [fin EXCEPT !.inflight = fin.inflight \ {RouteOrder[idx]}]
    /\ UNCHANGED <<fout, setupVars>>

\* the update returns the snapshot
EndCycle ==
    /\ fin.inflight = {}
    /\ FinishCycle
    /\ UNCHANGED <<fin, fout, setupVars>>

RefreshNext ==
    \/ ScheduledTick
    \/ PressButton
    \/ CallRefreshService
    \/ BeginFetch
    \/ EndFetch
    \/ EndCycle

SpecRefresh == RefreshInit /\ [][RefreshNext]_vars

-----------------------------------------------------------------------------
(* The setup flow, with every form submitted with every input *)

RouteNameTexts == {<<>>, <<" ">>, <<"A">>, <<" ", "A">>, <<"B">>}

\* date_selection and custom_date
DateChoices == {<<S_tomorrow, <<>>>>, <<S_custom, <<>>>>, <<S_custom, S_date_lit>>}

RouteFormChoices ==
    {RouteForm(n, f, dc[1], dc[2], <<>>) :
        n \in RouteNameTexts, f \in {<<>>, S_Perth}, dc \in DateChoices}

UrlChoices == {<<" ">>, S_bad_url, S_good_url}

FlowInit ==
    /\ PollIdle
    /\ SetupIdle
    /\ fin = <<>>
    /\ fout = <<>>

\* the first form is submitted
StepUser ==
    /\ flow.step = "user"
    /\ \E config_method \in {"manual", "url"} :
          flow' = [AsyncStepUser(flow, config_method) EXCEPT
                      !.last = [handler |-> "user", route_name |-> <<>>]]
    /\ UNCHANGED <<pollVars, fin, fout, entries, hass, call>>

\* the URL form is submitted
StepQuickConfig ==
    /\ flow.step = "quick_config"
    /\ \E journey_url \in UrlChoices :
          flow' = [AsyncStepQuickConfig(flow, journey_url) EXCEPT
                      !.last = [handler |-> "quick_config", route_name |-> <<>>]]
    /\ UNCHANGED <<pollVars, fin, fout, entries, hass, call>>

\* the add-route form is submitted; first keeps, for each name, the
\* configuration stored when the name was first accepted
StepAddRoute ==
    /\ flow.step = "add_route"
    /\ \E user_input \in RouteFormChoices :
          LET f == AsyncStepAddRoute(flow, user_input)
              key == Strip(user_input.route_name)
          IN  flow' = [f EXCEPT
                          !.last = [handler |-> "add_route",
                                    route_name |-> user_input.route_name],
                          !.first = IF f.errors = "none" /\ key \notin DOMAIN flow.first
                                    THEN Put(flow.first, key, f.routes[key])
                                    ELSE flow.first]
    /\ UNCHANGED <<pollVars, fin, fout, entries, hass, call>>

\* the add-another form is submitted
StepAddAnother ==
    /\ flow.step = "add_another"
    /\ \E add_another \in BOOLEAN :
          flow' = [AsyncStepAddAnother(flow, add_another) EXCEPT
                      !.last = [handler |-> "add_another", route_name |-> <<>>]]
    /\ UNCHANGED <<pollVars, fin, fout, entries, hass, call>>

FlowNext == StepUser \/ StepQuickConfig \/ StepAddRoute \/ StepAddAnother

SpecFlow == FlowInit /\ [][FlowNext]_vars

-----------------------------------------------------------------------------
(* One pass of the leg loop of _parse_json_journey_options, for every leg *)

S_Train == <<"T", "r", "a", "i", "n">>

S_Ferry == <<"F", "e", "r", "r", "y">>

S_Tram == <<"T", "r", "a", "m">>

S_CatRed == <<"C", "A", "T", " ", "R", "e", "d">>

S_Express == <<"E", "x", "p", "r", "e", "s", "s">>

S_BusToWalkSt == <<"C", "a", "t", "c", "h", " ", "B", "u", "s", " ", "t", "o", " ", "W", "a", "l", "k", " ", "S", "t">>

S_TrainBusBridge == <<"T", "r", "a", "i", "n", " ", "o", "r", " ", "B", "u", "s">>

VehicleChoices == {<<>>, S_Walk, S_Bus, S_Train, S_Ferry, S_Tram}

TitleChoices == {<<>>, S_CatchBus276, S_WalkToStop, S_CatRed, S_Express,
                 S_BusToWalkSt, S_TrainBusBridge}

LegChoices ==
    {Trip(TripAllKeys, v, c, t, d) :
        v \in VehicleChoices, c \in {None, S_276}, t \in TitleChoices, d \in {<<>>, S_12mins}}

NoLegParsed == [done |-> FALSE, raised |-> FALSE, leg |-> NoLeg]

LegInit ==
    /\ PollIdle
    /\ SetupIdle
    /\ fin \in LegChoices
    /\ fout = NoLegParsed

\* the body of the leg loop runs on the drawn leg
CallParseTrip ==
    /\ ~fout.done
    /\ LET r == ParseTrip(fin)
       IN  fout' = [done |-> TRUE, raised |-> r.raised, leg |-> r.leg]
    /\ UNCHANGED <<pollVars, fin, setupVars>>

LegNext == CallParseTrip

SpecLeg == LegInit /\ [][LegNext]_vars

-----------------------------------------------------------------------------
(* The page parser: _parse_journey_options                                 *)
(* A page is the sequence of its table elements in document order; an      *)
(* element that may be missing is a record with a present flag.            *)

S_JourneyOptions == <<"J", "o", "u", "r", "n", "e", "y", " ", "O", "p", "t", "i", "o", "n", "s">>

S_CaptionToday == <<"Y", "o", "u", "r", " ", "J", "o", "u", "r", "n", "e", "y", " ", "O", "p", "t", "i", "o", "n", "s">>

S_CaptionFares == <<"F", "a", "r", "e", "s">>

S_Leave0805 == <<" ", "L", "e", "a", "v", "e", " ", "8", ":", "0", "5", "a", "m", " ">>

S_Leave12 == <<"1", "2", ":", "3", "0", "p", "m">>

S_Soon == <<" ", "s", "o", "o", "n", " ">>

S_Arr0910 == <<"9", ":", "1", "0", "a", "m">>

S_Arr1 == <<"1", ":", "1", "5", "p", "m">>

S_IconWalk == <<"i", "c", "o", "n", "-", "w", "a", "l", "k">>

S_IconBus == <<"i", "c", "o", "n", "-", "b", "u", "s", "-", "c", "i", "r", "c">>

S_IconTrain == <<"i", "c", "o", "n", "-", "t", "r", "a", "i", "n", "-", "c", "i", "r", "c">>

S_IconFerry == <<"i", "c", "o", "n", "-", "f", "e", "r", "r", "y">>

S_IconCat == <<"i", "c", "o", "n", "-", "c", "a", "t">>

S_tp == <<"t", "p">>

S_am_ == <<"a", "m">>

S_pm_ == <<"p", "m">>

TABLE_ID == "jrne-opt-tbl"

Missing == [present |-> FALSE, text |-> <<>>]

Cell(text) == [present |-> TRUE, text |-> text]

\* Tag.get_text(strip=True) of an element holding one string
GetText(el) == Strip(el.text)

DigitAt(s, i) == i >= 1 /\ i =< Len(s) /\ s[i] \in {Digit(d) : d \in 0..9}

\* whether (\d{1,2}:\d{2}(?:am|pm)) matches at position i with n leading digits
TimeAt(s, i, n) ==
    /\ i + n + 4 =< Len(s)
    /\ \A j \in i..(i + n - 1) : DigitAt(s, j)
    /\ s[i + n] = ":"
    /\ DigitAt(s, i + n + 1) /\ DigitAt(s, i + n + 2)
    /\ SubSeq(s, i + n + 3, i + n + 4) \in {S_am_, S_pm_}

\* re.search(r"(\d{1,2}:\d{2}(?:am|pm))", s): leftmost start, two digits before one
TimeSearch(s) ==
    LET hits == {i \in 1..Len(s) : TimeAt(s, i, 2) \/ TimeAt(s, i, 1)}
    IN  IF hits = {} THEN [found |-> FALSE, group |-> <<>>]
        ELSE LET i == CHOOSE h \in hits : \A g \in hits : h =< g
                 n == IF TimeAt(s, i, 2) THEN 2 ELSE 1
             IN  [found |-> TRUE, group |-> SubSeq(s, i, i + n + 4)]

LeaveTime(leave_cell) ==
    IF ~leave_cell.present THEN <<>>
    ELSE LET leave_text == GetText(leave_cell)
             time_match == TimeSearch(leave_text)
         IN  IF time_match.found THEN time_match.group ELSE Strip(leave_text)

\* the type read from the class list of the icon of a leg item
IconLegType(icon) ==
    IF ~icon.present THEN "walk"
    ELSE LET icon_class == JoinSpace(icon.class)
         IN  IF Contains(S_IconWalk, icon_class) THEN "walk"
             ELSE IF Contains(S_IconBus, icon_class) THEN "bus"
             ELSE IF Contains(S_IconTrain, icon_class) THEN "train"
             ELSE IF Contains(S_IconFerry, icon_class) THEN "ferry"
             ELSE IF Contains(S_IconCat, icon_class) THEN "cat"
             ELSE "walk"

ParseLegItem(leg_item) ==
    JourneyLeg(IconLegType(leg_item.icon),
               IF leg_item.span.present THEN GetText(leg_item.span) ELSE <<>>,
               IF leg_item.code.present THEN GetText(leg_item.code) ELSE None)

RowLegs(route_cell) ==
    IF route_cell.present /\ route_cell.ol
    THEN [k \in 1..Len(route_cell.items) |-> ParseLegItem(route_cell.items[k])]
    ELSE <<>>

ParseRow(row, row_idx) ==
    JourneyOption(LeaveTime(row.leave),
                  IF row.arrive.present THEN GetText(row.arrive) ELSE <<>>,
                  IF row.time.present THEN GetText(row.time) ELSE <<>>,
                  RowLegs(row.route),
                  row_idx)

NoTable == [found |-> FALSE, at |-> 0]

FirstOf(positions) ==
    IF positions = {} THEN NoTable
    ELSE [found |-> TRUE, at |-> CHOOSE i \in positions : \A j \in positions : i =< j]

HasCaption(tbl) == tbl.caption.present /\ Contains(S_JourneyOptions, tbl.caption.text)

\* the lookup without its third selector
FindTableNoCaption(tables) ==
    LET by_id == FirstOf({i \in 1..Len(tables) : tables[i].id = TABLE_ID})
        by_class == FirstOf({i \in 1..Len(tables) : TABLE_ID \in tables[i].class})
    IN  IF by_id.found THEN by_id ELSE by_class

\* the three selectors, each tried only when the one before found nothing
FindTable(tables) ==
    LET by_id == FirstOf({i \in 1..Len(tables) : tables[i].id = TABLE_ID})
        by_class == FirstOf({i \in 1..Len(tables) : TABLE_ID \in tables[i].class})
        by_caption == FirstOf({i \in 1..Len(tables) : HasCaption(tables[i])})
    IN  IF by_id.found THEN by_id
        ELSE IF by_class.found THEN by_class
        ELSE by_caption

ParseHtmlJourneyOptions(soup) ==
    LET table == FindTable(soup.tables)
    IN  IF ~table.found THEN [raised |-> FALSE, log |-> "no_table", options |-> <<>>]
        ELSE LET rows == soup.tables[table.at].tbody
             IN  IF ~rows.present
                 THEN [raised |-> FALSE, log |-> "no_tbody", options |-> <<>>]
                 ELSE IF rows.tr = <<>>
                 THEN [raised |-> FALSE, log |-> "no_rows", options |-> <<>>]
                 ELSE [raised |-> FALSE, log |-> "none",
                       options |-> [i \in 1..Len(rows.tr) |-> ParseRow(rows.tr[i], i)]]

-----------------------------------------------------------------------------
(* One parse of a results page, for every page *)

MaxTables == 2

LegItem(classes, span, code) ==
    [icon |-> [present |-> classes # <<>>, class |-> classes], span |-> span, code |-> code]

RouteCell(items) == [present |-> TRUE, ol |-> TRUE, items |-> items]

NoRouteCell == [present |-> FALSE, ol |-> FALSE, items |-> <<>>]

EmptyRouteCell == [present |-> TRUE, ol |-> FALSE, items |-> <<>>]

HtmlRow(leave, arrive, time, route) ==
    [leave |-> leave, arrive |-> arrive, time |-> time, route |-> route]

RowMorning ==
    HtmlRow(Cell(S_Leave0805), Cell(S_Arr0910), Cell(S_65mins),
            RouteCell(<<LegItem(<<S_tp, S_IconWalk>>, Cell(S_WalkToStop), Missing),
                        LegItem(<<S_IconBus>>, Cell(S_CatchBus276), Cell(S_276))>>))

RowNoon ==
    HtmlRow(Cell(S_Leave12), Cell(S_Arr1), Missing,
            RouteCell(<<LegItem(<<S_IconTrain>>, Missing, Missing),
                        LegItem(<<>>, Cell(S_Express), Missing)>>))

RowSoon == HtmlRow(Cell(S_Soon), Missing, Cell(S_12mins), EmptyRouteCell)

RowBare ==
    HtmlRow(Missing, Cell(S_0805), Missing,
            RouteCell(<<LegItem(<<S_IconFerry>>, Missing, Missing),
                        LegItem(<<S_IconCat, S_tp>>, Cell(S_CatRed), Missing),
                        LegItem(<<S_tp>>, Missing, Missing)>>))

NoBodyTag == [present |-> FALSE, tr |-> <<>>]

Body(tr) == [present |-> TRUE, tr |-> tr]

HtmlTable(id, class, caption, tbody) ==
    [id |-> id, class |-> class, caption |-> caption, tbody |-> tbody]

TableChoices ==
    {HtmlTable(TABLE_ID, {}, Missing, Body(<<RowMorning, RowNoon>>)),
     HtmlTable(TABLE_ID, {"table"}, Cell(S_CaptionFares), NoBodyTag),
     HtmlTable("", {"table", TABLE_ID}, Missing, Body(<<RowSoon>>)),
     HtmlTable("", {}, Cell(S_CaptionToday), Body(<<RowBare, RowMorning>>)),
     HtmlTable("", {}, Cell(S_JourneyOptions), Body(<<>>)),
     HtmlTable("fares", {"table"}, Cell(S_CaptionFares), Body(<<RowNoon>>)),
     HtmlTable("", {}, Missing, Body(<<RowSoon>>))}

PageChoices == {[tables |-> t] : t \in SeqsUpTo(TableChoices, MaxTables)}

NoPageParsed == [done |-> FALSE, raised |-> FALSE, log |-> "none", options |-> <<>>]

HtmlInit ==
    /\ PollIdle
    /\ SetupIdle
    /\ fin \in PageChoices
    /\ fout = NoPageParsed

CallParseHtml ==
    /\ ~fout.done
    /\ LET r == ParseHtmlJourneyOptions(fin)
       IN  fout' = [done |-> TRUE, raised |-> r.raised, log |-> r.log, options |-> r.options]
    /\ UNCHANGED <<pollVars, fin, setupVars>>

HtmlNext == CallParseHtml

SpecHtml == HtmlInit /\ [][HtmlNext]_vars

-----------------------------------------------------------------------------
(* Properties of the poll cycle (Spec) *)

Position(route_name) == CHOOSE i \in 1..Len(RouteOrder) : RouteOrder[i] = route_name

\* the step in which async_update_data returns
CycleReturns == pc = "running" /\ pc' = "idle"

\* C1: when a poll cycle returns, every route of the registry has been
\* attempted, and the snapshot has an entry for a route exactly when the
\* fetch of that route returned without raising.
C1_EntryIffFetchReturned ==
    [][CycleReturns =>
          /\ DOMAIN outcome = RouteNames
          /\ \A r \in RouteNames : (r \in DOMAIN data'.routes) <=> (outcome[r] = "ok")]_vars

\* a cycle has returned in which B failed and A and C are in the snapshot
C1_Witness ==
    /\ pc = "idle"
    /\ data.valid
    /\ DOMAIN outcome = RouteNames
    /\ outcome["B"] = "raised"
    /\ DOMAIN data.routes = {"A", "C"}

\* C2: no error of a per-route fetch leaves the poll cycle, and a cycle in
\* which every route failed returns a valid snapshot with an empty mapping.
C2_CycleNeverRaises ==
    /\ pc # "raised"
    /\ (pc = "idle" /\ DOMAIN outcome = RouteNames
            /\ (\A r \in RouteNames : outcome[r] = "raised"))
        => (data.valid /\ DOMAIN data.routes = {})

\* a cycle has returned in which every route failed, the last one on a
\* response that is not JSON
C2_Witness ==
    /\ pc = "idle"
    /\ DOMAIN outcome = RouteNames
    /\ \A r \in RouteNames : outcome[r] = "raised"
    /\ last_call.raised = "JSONDecodeError"
    /\ data.valid
    /\ DOMAIN data.routes = {}

\* C3: when a cycle returns, a route that had an entry in the previous
\* snapshot and whose fetch failed in this cycle has no entry in the new
\* snapshot, and a route whose fetch succeeded in this cycle has the entry
\* fetched in this cycle, whether or not it had one before.
C3_NoCarryOver ==
    [][CycleReturns =>
          \A r \in RouteNames :
              /\ (r \in DOMAIN data.routes /\ outcome[r] = "raised")
                     => r \notin DOMAIN data'.routes
              /\ (outcome[r] = "ok")
                     => (r \in DOMAIN data'.routes /\ data'.routes[r] = routes_data[r])]_vars

\* a cycle is about to return in which B, present in the previous snapshot,
\* failed, and A, absent from the previous snapshot, succeeded
C3_Witness ==
    /\ pc = "running"
    /\ idx > Len(RouteOrder)
    /\ data.valid
    /\ "B" \in DOMAIN data.routes
    /\ outcome["B"] = "raised"
    /\ "A" \notin DOMAIN data.routes
    /\ outcome["A"] = "ok"

\* C4: a read of coordinator.data yields the snapshot the last completed
\* cycle returned (NoData before the first), also while a cycle is running;
\* coordinator.data changes only in the step in which the cycle returns, after
\* the loop has passed every route, and then to the map the cycle assembled.
C4_ReadersSeeCompleteSnapshots ==
    /\ [](seen.read => seen.value = returned)
    /\ [][data' # data =>
             /\ CycleReturns
             /\ idx > Len(RouteOrder)
             /\ data' = TransperthJourneyData(routes_data)]_vars

\* a sensor has read the previous snapshot while the running cycle has
\* already stored results that differ from it
C4_Witness ==
    /\ pc = "running"
    /\ idx > 1
    /\ seen.read
    /\ seen.value.valid
    /\ DOMAIN routes_data # {}
    /\ DOMAIN routes_data # DOMAIN seen.value.routes

\* C6: two calls for the same route configured with the date "today", made
\* on two different calendar days, pass two different date strings to
\* get_journey_options.
C6_TodayResolvedAtEachTick ==
    \A e1 \in date_log, e2 \in date_log :
        (e1[1] = e2[1] /\ e1[2] # e2[2]) => e1[3] # e2[3]

IsSuccessResult(body) == body.json = "object" /\ Get(body, "result", "None") = "success"

\* the latest call issued its POST and got a response
PostAnswered == last_call.route # "" /\ Len(last_call.net) = 2 /\ last_call.post.kind = "response"

\* the route of the latest call is left out and the loop has moved on
RouteOmittedLoopContinues ==
    /\ last_call.raised # "none"
    /\ last_call.route \notin DOMAIN routes_data
    /\ outcome[last_call.route] = "raised"
    /\ pc \in {"running", "idle"}
    /\ idx = Position(last_call.route) + 1
    /\ (pc = "idle" => DOMAIN outcome = RouteNames /\ last_call.route \notin DOMAIN data.routes)

DigitVal(c) == CHOOSE d \in 0..9 : Digit(d) = c

IsDigits(s, positions) == \A i \in positions : s[i] \in {Digit(d) : d \in 0..9}

\* s is the date of t in the form YYYY-MM-DD
IsDateOf(s, t) ==
    /\ Len(s) = 10
    /\ s[5] = "-"
    /\ s[8] = "-"
    /\ IsDigits(s, {1, 2, 3, 4, 6, 7, 9, 10})
    /\ 1000 * DigitVal(s[1]) + 100 * DigitVal(s[2]) + 10 * DigitVal(s[3]) + DigitVal(s[4]) = t.year
    /\ 10 * DigitVal(s[6]) + DigitVal(s[7]) = t.month
    /\ 10 * DigitVal(s[9]) + DigitVal(s[10]) = t.day

\* s is the time of t in the form HH:MM
IsTimeOf(s, t) ==
    /\ Len(s) = 5
    /\ s[3] = ":"
    /\ IsDigits(s, {1, 2, 4, 5})
    /\ 10 * DigitVal(s[1]) + DigitVal(s[2]) = t.hour
    /\ 10 * DigitVal(s[4]) + DigitVal(s[5]) = t.minute

\* the step is one pass of the loop of async_update_data
RouteFetched == pc = "running" /\ idx =< Len(RouteOrder) /\ idx' = idx + 1

-----------------------------------------------------------------------------
(* Properties of get_journey_options (SpecFetch) *)

\* empty, or nothing but whitespace
EmptyOrWhitespace(s) == s = None \/ \A i \in 1..Len(s) : s[i] \in Whitespace

RequiredMissing(args) ==
    \/ EmptyOrWhitespace(args.from_location)
    \/ EmptyOrWhitespace(args.to_location)
    \/ EmptyOrWhitespace(args.from_position)
    \/ EmptyOrWhitespace(args.to_position)

\* C5: a call in which a location or a position is empty or whitespace-only
\* raises the validation error and has issued no request, neither the
\* priming GET nor the POST.
C5_ValidationBeforeNetwork ==
    (fout.called /\ RequiredMissing(fin.args))
        => (fout.res.raised = "ValueError" /\ fout.res.net = <<>> /\ fout.res.api = NewApi)

\* a call with a whitespace-only from_position and the other three present
\* has raised
C5_Witness ==
    /\ fout.called
    /\ fin.args.from_position = <<" ", "\t">>
    /\ fin.args.from_location = S_Perth
    /\ fin.args.to_location = S_Perth
    /\ fin.args.to_position = S_Perth
    /\ fout.res.raised = "ValueError"

\* C7: the body of every POST has at least one Transport* flag set, and has
\* TransportBus and TransportTrain set when the transport options are None or
\* the empty list.
C7_TransportDefault ==
    (fout.called /\ Len(fout.res.net) = 2) =>
        LET p == fout.res.net[2].payload
        IN  /\ p.TransportBus \/ p.TransportTrain \/ p.TransportFerry \/ p.TransportSchoolBus
            /\ (fin.args.transport_options \in {None, <<>>})
                   => (p.TransportBus /\ p.TransportTrain)

\* a POST was sent for a call without transport options
C7_Witness ==
    /\ fout.called
    /\ fin.args.transport_options = None
    /\ Len(fout.res.net) = 2
    /\ fout.res.net[2].method = "POST"
    /\ fout.res.net[2].payload.TransportBus
    /\ ~fout.res.net[2].payload.TransportFerry

-----------------------------------------------------------------------------
(* Properties of _parse_json_journey_options (SpecParse) *)

LegShapeOk(trip) ==
    /\ trip.isdict
    /\ Get(trip, "TripVehicle", <<>>) # None
    /\ Get(trip, "DisplayTripTitle", <<>>) # None

LegsOf(journey) == Get(journey, "JnyTripDetails", JsonList(<<>>))

\* the entry itself has the wrong shape: not an object, or no list of legs
EntryMalformed(journey) == ~journey.isdict \/ ~LegsOf(journey).iterable

\* the positions of the malformed legs of an entry
MalformedLegs(journey) ==
    IF EntryMalformed(journey) THEN {}
    ELSE {k \in 1..Len(LegsOf(journey).items) : ~LegShapeOk(LegsOf(journey).items[k])}

EntryWellFormed(journey) == ~EntryMalformed(journey) /\ MalformedLegs(journey) = {}

Sources == {fout.traced[k].src : k \in 1..Len(fout.traced)}

\* C8: for a list of N entries of which exactly one has a malformed leg, and
\* only one, the others being well formed, the parser returns N options, and
\* the option of that entry has every leg but the malformed one.
C8_MalformedLegOmitted ==
    (fout.done /\ fin.iterable) =>
        \A i \in 1..Len(fin.items) :
            (/\ Cardinality(MalformedLegs(fin.items[i])) = 1
             /\ ~EntryMalformed(fin.items[i])
             /\ \A j \in 1..Len(fin.items) : j # i => EntryWellFormed(fin.items[j]))
            => /\ Len(fout.traced) = Len(fin.items)
               /\ Len(fout.traced[i].option.legs) = Len(LegsOf(fin.items[i]).items) - 1

\* C9: for an iterable list the parser does not raise; the options come in
\* the order of their entries; every well-formed entry has its option and no
\* entry of the wrong shape has one.
C9_MalformedEntrySkipped ==
    (fout.done /\ fin.iterable) =>
        /\ ~fout.raised
        /\ \A k \in 1..(Len(fout.traced) - 1) : fout.traced[k].src < fout.traced[k + 1].src
        /\ \A i \in 1..Len(fin.items) :
               /\ EntryWellFormed(fin.items[i]) => i \in Sources
               /\ EntryMalformed(fin.items[i]) => i \notin Sources
        /\ \A k \in 1..Len(fout.traced) :
               fout.traced[k].option.leave_time = fin.items[fout.traced[k].src].JnyDisplayDepartTime

\* a list whose second entry is not an object, between two well-formed
\* entries, has been parsed to the two options of those entries
C9_Witness ==
    /\ fout.done
    /\ fin.iterable
    /\ Len(fin.items) = 3
    /\ EntryWellFormed(fin.items[1])
    /\ ~fin.items[2].isdict
    /\ EntryWellFormed(fin.items[3])
    /\ Len(fout.traced) = 2
    /\ fout.traced[2].src = 3

-----------------------------------------------------------------------------
(* Properties of the setup, the options and the refresh service (SpecEntry) *)

\* the coordinators a service call addresses
Addressed(c) ==
    IF c.config_entry_id.given /\ c.config_entry_id.value # ""
    THEN c.loaded \cap {c.config_entry_id.value}
    ELSE c.loaded

NamesRoute(c) == c.route_name.given /\ c.route_name.value # ""

\* C11: a call of the refresh service with neither route_name nor
\* config_entry_id requests a refresh on every loaded coordinator; for a call
\* with a route_name, a coordinator the call addresses that does not contain
\* the route gets no refresh request and a warning, and the call raises nothing.
C11_RefreshAllOrWarn ==
    call.made =>
        /\ (~call.route_name.given /\ ~call.config_entry_id.given)
               => (call.result.refreshed = call.loaded /\ call.result.raised = "none")
        /\ \A e \in Addressed(call) :
               (NamesRoute(call) /\ call.route_name.value \notin EntryRoutes(e))
                   => /\ e \notin call.result.refreshed
                      /\ Warning("route_not_found", e) \in call.result.warnings
                      /\ call.result.raised = "none"

\* with both entries loaded the service was called for route A, which only
\* the first has: the first was refreshed, the second logged a warning
C11_Witness ==
    /\ call.made
    /\ call.loaded = EntryIds
    /\ call.route_name = Given("A")
    /\ ~call.config_entry_id.given
    /\ call.result.refreshed = {"e1"}
    /\ call.result.warnings = {Warning("route_not_found", "e2")}
    /\ call.result.raised = "none"

\* C12: the refresh service is registered at most once, and a step that
\* registers it starts without the services_registered marker and ends with it.
C12_RegisteredAtMostOnce ==
    /\ [](hass.registrations =< 1)
    /\ [](hass.registrations = 1 <=> hass.marker)
    /\ [][hass'.registrations # hass.registrations =>
             /\ ~hass.marker
             /\ hass'.marker
             /\ hass'.registrations = hass.registrations + 1]_vars

\* both entries are loaded and the service was registered once
C12_Witness ==
    /\ DOMAIN hass.runtime = EntryIds
    /\ hass.registrations = 1
    /\ hass.services = {"refresh"}

\* C13: a loaded coordinator schedules with the stored scan interval, which
\* is never below 60 seconds, and with 300 seconds when none is stored.
C13_PollIntervalFloor ==
    \A e \in DOMAIN hass.runtime :
        /\ hass.runtime[e].update_interval >= 60
        /\ entries[e].options = NoOptions => hass.runtime[e].update_interval = 300
        /\ entries[e].options # NoOptions
               => hass.runtime[e].update_interval = entries[e].options[1]

\* 59 seconds were submitted for the first entry, which is loaded and polls
\* every 60 seconds; the second is loaded without a stored value
C13_Witness ==
    /\ DOMAIN hass.runtime = EntryIds
    /\ entries["e1"].last = [submitted |-> TRUE, input |-> FormValue(TRUE, 59)]
    /\ hass.runtime["e1"].update_interval = 60
    /\ entries["e2"].options = NoOptions
    /\ hass.runtime["e2"].update_interval = 300

-----------------------------------------------------------------------------
(* Properties of a sequence of fetches on one client (SpecClient) *)

\* the latest call issued its POST
PostIssued == fout.n >= 1 /\ Len(fout.res.net) = 2 /\ fout.res.net[2].method = "POST"

PostHeaders == fout.res.net[2].headers

\* the priming GET raised or was answered with an error status
PrimeFailed(prime) == prime.kind = "timeout" \/ prime.status \in 400..599

\* the priming GET yields no anti-forgery token
PrimeYieldsNoToken(prime) == PrimeFailed(prime) \/ ~prime.page.token_input.present

\* the script elements of a page in which an identifier is found
Matches(scripts, field) ==
    {i \in 1..Len(scripts) : scripts[i].has_string /\ scripts[i][field] # None}

\* the identifier scraped from the priming response, or the default
ScrapedOr(prime, field, default) ==
    IF PrimeFailed(prime) \/ Matches(prime.page.scripts, field) = {} THEN default
    ELSE LET last == CHOOSE i \in Matches(prime.page.scripts, field) :
                         \A j \in Matches(prime.page.scripts, field) : j =< i
         IN  prime.page.scripts[last][field]

\* C14: two consecutive requests whose arguments differ in the departure
\* option only are sent with different JSON bodies.
C14_DepartureModeInBody ==
    (/\ PostIssued
     /\ fout.prev.called
     /\ Len(fout.prev.net) = 2
     /\ fin.args.departure_option # fout.prev.args.departure_option
     /\ [fin.args EXCEPT !.departure_option = fout.prev.args.departure_option] = fout.prev.args)
        => fout.res.net[2].payload # fout.prev.net[2].payload

\* C17: a fetch whose priming GET yields no token (it fails, or the page has
\* no token input) sends its POST without a RequestVerificationToken header,
\* whatever fetches the client made before.
C17_NoTokenNoHeader ==
    (PostIssued /\ PrimeYieldsNoToken(fin.prime))
        => PostHeaders.RequestVerificationToken = None

\* C18: the ModuleId, TabId and token headers of a POST are those of the
\* fetch's own priming response: the scraped identifiers, or 5325 and 140
\* when none is scraped, and the token of the page, or none.
C18_HeadersFromOwnPriming ==
    PostIssued =>
        /\ PostHeaders.ModuleId = ScrapedOr(fin.prime, "module_id", S_5325)
        /\ PostHeaders.TabId = ScrapedOr(fin.prime, "tab_id", S_140)
        /\ PostHeaders.RequestVerificationToken =
               (IF PrimeYieldsNoToken(fin.prime) THEN None
                ELSE fin.prime.page.token_input.value)

\* the POST was answered with a success body that can be parsed
PostSucceeds(post) ==
    /\ post.kind = "response"
    /\ post.status \notin 400..599
    /\ IsSuccessResult(post.body)
    /\ Get(post.body, "data", JsonList(<<>>)).iterable

\* C19: a fetch whose priming GET raised or was answered with an error
\* status still issues the POST, with ModuleId 5325, TabId 140 and no token
\* header, and returns exactly when the POST succeeds.
C19_PrimingFailureProceeds ==
    (fout.n >= 1 /\ PrimeFailed(fin.prime)) =>
        /\ PostIssued
        /\ fout.res.net[1].method = "GET"
        /\ PostHeaders.ModuleId = S_5325
        /\ PostHeaders.TabId = S_140
        /\ PostHeaders.RequestVerificationToken = None
        /\ (fout.res.raised = "none") <=> PostSucceeds(fin.post)

\* after a fetch that scraped a token and identifiers, a fetch whose priming
\* GET was answered 503 has sent its POST with the defaults and returned
C19_Witness ==
    /\ fout.n >= 2
    /\ fout.prev.called
    /\ fout.prev.net[2].headers.RequestVerificationToken = S_T1
    /\ fout.prev.net[2].headers.ModuleId = S_77
    /\ fin.prime = PrimeResponse(503, PageWithTokens)
    /\ PostIssued
    /\ PostHeaders.ModuleId = S_5325
    /\ fout.res.raised = "none"
    /\ Len(fout.res.value.options) = 1

-----------------------------------------------------------------------------
(* Properties of the sensor (SpecSensor) *)

\* the snapshot has an entry for the route with at least k options
HasOption(d, r, k) == d.valid /\ r \in DOMAIN d.routes /\ Len(d.routes[r].options) >= k

\* C15: the value of the sensor of route r and slot k is the leave time, an
\* arrow between two spaces and the arrive time of the k-th option of r when
\* the snapshot has an entry for r with at least k options; otherwise the
\* value is None and the attributes are route_name and option_index only.
C15_SensorValue ==
    fout.done =>
        LET d == fin.data
            r == fin.route_name
            k == fin.option_index
        IN  /\ HasOption(d, r, k) =>
                   fout.value = d.routes[r].options[k].leave_time
                                    \o <<" ", "→", " ">>
                                    \o d.routes[r].options[k].arrive_time
            /\ ~HasOption(d, r, k) =>
                   /\ fout.value = None
                   /\ fout.attrs.keys = {"route_name", "option_index"}
            /\ fout.attrs.route_name = r
            /\ fout.attrs.option_index = k

\* slot 3 of route A, which has four options, shows the third
C15_Witness ==
    /\ fout.done
    /\ fin.route_name = "A"
    /\ fin.option_index = 3
    /\ fin.data.valid
    /\ DOMAIN fin.data.routes = {"A", "B"}
    /\ Len(fin.data.routes["A"].options) = 4
    /\ fout.value = <<"3", ":", "0", "5", "a", "m", " ", "→", " ", "4", ":", "0", "5", "a", "m">>
    /\ "leg_count" \in fout.attrs.keys

-----------------------------------------------------------------------------
(* Properties of the setup flow (SpecFlow) *)

\* the step submits the add-route form
AddRouteSubmitted == flow.step = "add_route" /\ flow'.last.handler = "add_route"

\* C16: an add-route form whose route name is blank or is an accepted route
\* name is rejected with an error and leaves the accepted routes and their
\* configurations as they were; every accepted route has the configuration
\* stored when its name was first accepted, also in the entry the flow creates.
C16_DuplicateRejected ==
    /\ [](\A n \in DOMAIN flow.routes :
              n \in DOMAIN flow.first /\ flow.routes[n] = flow.first[n])
    /\ [](flow.entry.created => flow.entry.routes = flow.first)
    /\ [][(/\ AddRouteSubmitted
           /\ \/ EmptyOrWhitespace(flow'.last.route_name)
              \/ flow'.last.route_name \in DOMAIN flow.routes)
          => /\ flow'.errors \in {"required", "duplicate"}
             /\ flow'.routes = flow.routes
             /\ flow'.step = "add_route"]_vars

\* with A and B accepted, A with a custom date, a form for A was rejected
\* as a duplicate
C16_Witness ==
    /\ DOMAIN flow.routes = {<<"A">>, <<"B">>}
    /\ flow.routes[<<"A">>].date = S_date_lit
    /\ flow.last = [handler |-> "add_route", route_name |-> <<"A">>]
    /\ flow.errors = "duplicate"
    /\ flow.step = "add_route"

-----------------------------------------------------------------------------
(* Properties of the leg loop (SpecLeg) *)

KindWords == <<S_walk, S_bus, S_train, S_ferry, S_cat>>

KindNames == <<"walk", "bus", "train", "ferry", "cat">>

\* the first keyword of the precedence found in the title, whatever its case
TitleKind(title) ==
    LET found == {i \in 1..5 : Contains(KindWords[i], Lower(title))}
    IN  IF found = {} THEN "walk"
        ELSE KindNames[CHOOSE i \in found : \A j \in found : i =< j]

\* the type the vehicle kind decides, "" when it decides nothing
VehicleKind(vehicle) ==
    LET found == {i \in 1..4 : Lower(vehicle) = KindWords[i]}
    IN  IF found = {} THEN "" ELSE KindNames[CHOOSE i \in found : TRUE]

\* C21: a leg whose vehicle kind is walk, bus, train or ferry has that type
\* whatever its title; any other leg has the type of the first keyword of
\* walk, bus, train, ferry, cat that its title contains, and walk when none.
C21_VehicleKindFirst ==
    (fout.done /\ ~fout.raised) =>
        fout.leg.type = (IF VehicleKind(fin.TripVehicle) # ""
                         THEN VehicleKind(fin.TripVehicle)
                         ELSE TitleKind(fin.DisplayTripTitle))

StartsWith(s, prefix) == Len(s) >= Len(prefix) /\ SubSeq(s, 1, Len(prefix)) = prefix

\* the title without its leading "Catch ", "Walk to " or "Walk "
WithoutLeadingPrefix(title) ==
    IF StartsWith(title, S_Catch_) THEN SubSeq(title, Len(S_Catch_) + 1, Len(title))
    ELSE IF StartsWith(title, S_WalkTo_) THEN SubSeq(title, Len(S_WalkTo_) + 1, Len(title))
    ELSE IF StartsWith(title, S_Walk_) THEN SubSeq(title, Len(S_Walk_) + 1, Len(title))
    ELSE title

\* the parts of a description, in order
ExpectedParts(trip) ==
    (IF trip.RouteCode \notin {None, <<>>} THEN <<trip.RouteCode>> ELSE <<>>)
    \o (IF trip.DisplayTripTitle # <<>>
        THEN <<WithoutLeadingPrefix(trip.DisplayTripTitle)>> ELSE <<>>)
    \o (IF trip.DisplayTripDuration # <<>>
        THEN <<(<<"(">> \o trip.DisplayTripDuration \o <<")">>)>> ELSE <<>>)

\* C22: the description of a leg is the single-space join of the route code,
\* the title without its leading prefix and the duration in parentheses, of
\* those that are present; title "Catch Bus 276", code "276" and duration
\* "12 mins" give "276 Bus 276 (12 mins)"; with no part present it is the
\* vehicle kind.
C22_LeadingPrefixOnly ==
    (fout.done /\ ~fout.raised) =>
        /\ ExpectedParts(fin) # <<>> => fout.leg.description = JoinSpace(ExpectedParts(fin))
        /\ ExpectedParts(fin) = <<>> => fout.leg.description = Lower(fin.TripVehicle)
        /\ (fin.DisplayTripTitle = S_CatchBus276 /\ fin.RouteCode = S_276
               /\ fin.DisplayTripDuration = S_12mins)
               => fout.leg.description =
                      <<"2", "7", "6", " ", "B", "u", "s", " ", "2", "7", "6", " ",
                        "(", "1", "2", " ", "m", "i", "n", "s", ")">>

-----------------------------------------------------------------------------
(* Properties of the option index (SpecParse) and of the page parser (SpecHtml) *)

\* C23: in the structured-payload parser, as in the page parser, the index
\* of every returned option is the 1-based position of its entry in the
\* input array, whatever ordinal field the entry carries.
C23_IndexIsPosition ==
    fout.done => \A k \in 1..Len(fout.traced) : fout.traced[k].option.index = fout.traced[k].src

\* the table the three lookups select, 0 when none does
LookedUp(tables) ==
    LET first(S) == CHOOSE i \in S : \A j \in S : i =< j
        ids == {i \in 1..Len(tables) : tables[i].id = TABLE_ID}
        classes == {i \in 1..Len(tables) : TABLE_ID \in tables[i].class}
        captions == {i \in 1..Len(tables) :
                        tables[i].caption.present
                        /\ Contains(S_JourneyOptions, tables[i].caption.text)}
    IN  IF ids # {} THEN first(ids)
        ELSE IF classes # {} THEN first(classes)
        ELSE IF captions # {} THEN first(captions)
        ELSE 0

NothingToParse(tables) ==
    \/ LookedUp(tables) = 0
    \/ ~tables[LookedUp(tables)].tbody.present
    \/ tables[LookedUp(tables)].tbody.tr = <<>>

\* C24: the page parser takes the table with the known id, else the first
\* with the known class, else the first whose caption contains "Journey
\* Options"; when there is none, or it has no body or no rows, the parser
\* returns the empty sequence, and it never raises.
C24_NoTableNoOptions ==
    fout.done =>
        /\ ~fout.raised
        /\ NothingToParse(fin.tables) => fout.options = <<>>
        /\ ~NothingToParse(fin.tables) =>
              LET tr == fin.tables[LookedUp(fin.tables)].tbody.tr
              IN  /\ Len(fout.options) = Len(tr)
                  /\ \A k \in 1..Len(tr) :
                        /\ fout.options[k].index = k
                        /\ fout.options[k].arrive_time = Strip(tr[k].arrive.text)

C24_Witness ==
    /\ fout.done
    /\ fin.tables # <<>>
    /\ LookedUp(fin.tables) = 0
    /\ fout.options = <<>>
    /\ ~fout.raised

C24_WitnessCaption ==
    /\ fout.done
    /\ LookedUp(fin.tables) = 2
    /\ ~HasCaption(fin.tables[1])
    /\ Len(fout.options) = 2

\* C26: a call of the refresh service whose config_entry_id names no loaded
\* entry, the marker key "services_registered" included, requests no
\* refresh, logs a warning and returns without raising.
C26_UnknownEntryWarns ==
    (/\ call.made
     /\ TruthyOpt(call.config_entry_id)
     /\ call.config_entry_id.value \notin call.loaded)
        => /\ call.result.raised = "none"
           /\ call.result.refreshed = {}
           /\ call.result.warnings = {Warning("no_entries", "")}

-----------------------------------------------------------------------------
(* Properties of the created entry (SpecFlow) *)

\* C29: the setup flow creates no config entry without a route: the entry
\* is created only by the add-another step, from the routes accepted so far,
\* of which there is at least one.
C29_EntryHasRoute ==
    /\ [](flow.entry.created => DOMAIN flow.entry.routes # {})
    /\ [][(~flow.entry.created /\ flow'.entry.created)
          => /\ flow.step = "add_another"
             /\ flow'.last.handler = "add_another"
             /\ DOMAIN flow.routes # {}
             /\ flow'.entry.routes = flow.routes]_vars

\* the flow ended with an entry of one route, created by the add-another step
C29_Witness ==
    /\ flow.entry.created
    /\ flow.step = "done"
    /\ flow.last.handler = "add_another"
    /\ DOMAIN flow.entry.routes = {<<"A">>}

-----------------------------------------------------------------------------
(* Properties of the slot sensor on parsed data (SpecSlot) *)

\* C30: the sensor of slot k shows the option at position k of the options
\* of its route, and the index of that option is k, also when the parser
\* skipped a malformed entry that came before it.
C30_SlotShowsOwnIndex ==
    (fout.read /\ fout.selected.found) =>
        /\ fout.selected.option = fout.data.routes["A"].options[fin.option_index]
        /\ fout.selected.option.index = fin.option_index

-----------------------------------------------------------------------------
(* Properties of the refresh triggers (SpecRefresh) *)

\* a trigger of any kind took effect in this step
TriggerFired == fin'.trigger # "none" /\ fin'.started = <<>> /\ fin' # fin

\* C25: a refresh triggered by the service or by a button enters
\* async_update_data exactly as the scheduled tick does; the snapshot only
\* ever changes to what a finished run of async_update_data returns, and
\* get_journey_options is only ever called by the loop of such a run.
C25_OneUpdatePath ==
    /\ [][TriggerFired
          => /\ fin'.trigger \in {"tick", "button", "service"}
             /\ pc = "idle" /\ pc' = "running"
             /\ idx' = 1
             /\ routes_data' = EmptyMap
             /\ outcome' = EmptyMap
             /\ data' = data /\ api' = api]_vars
    /\ [][data' # data
          => /\ pc = "running" /\ pc' = "idle"
             /\ DOMAIN outcome = RouteNames
             /\ data' = TransperthJourneyData(routes_data)]_vars
    /\ [][(api' # api \/ (last_call' # last_call /\ last_call'.route # ""))
          => /\ pc = "running"
             /\ last_call'.route = RouteOrder[idx]
             /\ last_call'.route \in fin.inflight]_vars

\* runs triggered by a button and by the service each returned a snapshot
C25_Witness ==
    /\ pc = "idle"
    /\ fin.trigger = "service"
    /\ fin.started = RouteOrder
    /\ fin.before = {"A", "C"}
    /\ DOMAIN data.routes = RouteNames

C25_WitnessButton ==
    /\ pc = "idle"
    /\ fin.trigger = "button"
    /\ fin.started = RouteOrder
    /\ DOMAIN data.routes = {"B"}

\* C27: in one run of async_update_data the fetches are started in registry
\* order and a fetch is started only when every fetch started before it has
\* returned or raised: at most one fetch uses the API client at a time.
C27_OneFetchAtATime ==
    /\ [](/\ Cardinality(fin.inflight) =< 1
          /\ Len(fin.started) =< Len(RouteOrder)
          /\ \A i \in 1..Len(fin.started) : fin.started[i] = RouteOrder[i])
    /\ [][Len(fin'.started) > Len(fin.started)
          => /\ fin.inflight = {}
             /\ DOMAIN outcome = {fin.started[i] : i \in 1..Len(fin.started)}
             /\ fin'.inflight = {RouteOrder[Len(fin.started) + 1]}]_vars

\* the fetch of B is under way after the fetch of A raised
C27_Witness ==
    /\ pc = "running"
    /\ fin.started = <<"A", "B">>
    /\ fin.inflight = {"B"}
    /\ DOMAIN outcome = {"A"}
    /\ outcome["A"] = "raised"

====
